---- MODULE Spec2Model ----
(***************************************************************************)
(* A model of the guard layer of the CodeSandbox secure gateway: the       *)
(* RateLimiter (services/rate-limiter.ts), the request validator           *)
(* (services/path-validator.ts), the audit ledger                          *)
(* (services/audit-logger.ts), the two downstream managers and the five    *)
(* tool handlers (tools/sandbox-tools.ts, tools/github-tools.ts).          *)
(*                                                                         *)
(* Time is Date.now() in milliseconds.  Strings that the validators        *)
(* inspect character by character are sequences of one-character strings.  *)
(***************************************************************************)
EXTENDS Integers, Sequences, FiniteSets, TLC

VARIABLES
    now,        \* Date.now(), ms
    ticks,      \* number of clock advances so far (bounded)
    calls,      \* number of direct limiter calls so far (bounded)
    limits,     \* RateLimiter.limits of each limiter instance: key -> entry
    win,        \* observation: per key, the fixed window of the latest direct checkLimit and its result
    subject,    \* the identity that drives the limiter directly in this behaviour
    day,        \* observation: per identity, the daily window of the latest direct recordExecutionTime
    impl,       \* which SandboxManager the build links: the in-memory one or the SDK one
    sess,       \* per caller session: the tool call it has in flight, or completed last
    reqCount,   \* tool calls started so far (bounded)
    ledger,     \* audit_logs: the rows AuditLogger.log inserted, oldest first
    provider,   \* observation: every call issued to a downstream provider so far
    sandboxes,  \* the sandbox service: sandbox id -> the paths of the files it holds
    pushed,     \* GitHub: the tool calls whose commit a branch reference was moved to
    octokitCache, \* GitHubManager.octokitCache: repository id -> the credential of its client
    alerts,     \* the reports of AuditLogger.log on logger.error / console.error so far
    lastLog,    \* observation: the latest direct AuditLogger.log call and how it ended
    lastQuery,  \* observation: the latest direct queryLogs call and what it returned
    lastVerify, \* observation: the latest direct verifyIntegrity call and what it returned
    probe       \* observation: the latest direct call of a function, its argument and result

clockVars == <<now, ticks>>
directVars == <<calls, subject, win, day>>
auditVars == <<alerts, lastLog, lastQuery, lastVerify, probe>>
gatewayVars == <<impl, sess, reqCount, ledger, provider, sandboxes, pushed, octokitCache,
                 alerts, lastLog, lastQuery, lastVerify, probe>>
limiterVars == <<now, ticks, calls, limits, subject, win, day>>
vars == <<now, ticks, calls, limits, subject, win, day,
          impl, sess, reqCount, ledger, provider, sandboxes, pushed, octokitCache,
          alerts, lastLog, lastQuery, lastVerify, probe>>

-----------------------------------------------------------------------------
(* Bounds of the model *)

MaxTicks == 2
MaxCalls == 11
MaxRequests == 2
MaxBurst == 11

-----------------------------------------------------------------------------
(* QUOTA_TIERS and the window lengths of rate-limiter.ts *)

MINUTE_MS == 60000
HOUR_MS == 3600000
DAY_MS == 86400000

Tiers == {"free", "pro"}
Operations == {"api_call", "create_sandbox"}

QUOTA_TIERS ==
    [free |-> [sandboxesPerHour |-> 5, apiCallsPerMinute |-> 10,
               executionTimePerDay |-> 3600000],
     pro  |-> [sandboxesPerHour |-> 100, apiCallsPerMinute |-> 100,
               executionTimePerDay |-> 86400000]]

\* an optional field that was never written (undefined in the source)
Undefined == -1
NoEntry == [count |-> Undefined]

\* JavaScript truthiness of an optional number: undefined and 0 are falsy
Truthy(x) == x # Undefined /\ x # 0
\* (x || 0)
OrZero(x) == IF Truthy(x) THEN x ELSE 0

\* Math.ceil(a / b) for b > 0
CeilDiv(a, b) == IF a >= 0 THEN (a + b - 1) \div b ELSE -((-a) \div b)

\* `${userId}:${operation}`
\* a key per identity, whatever the operation class
KeyPerIdentity(userId, operation) == userId \o ":" \o "api_call"

\* `${userId}:${operation}`
Key(userId, operation) == userId \o ":" \o operation


-----------------------------------------------------------------------------
(* Identities, limiter instances and keys *)

\* identities that drive a limiter directly, each always presented with one tier
Users == {"u1", "u2"}
TierOf == [u1 |-> "free", u2 |-> "pro"]
\* the identity every transport passes to the tool handlers
DefaultUser == "default_user"
AllUsers == Users \cup {DefaultUser}

\* one RateLimiter object per tools module
Limiters == {"sandbox-tools", "github-tools"}
\* the instance that SpecLimiter drives through its public methods
UnderTest == "sandbox-tools"

AllKeys == {Key(u, op) : u \in AllUsers, op \in Operations \cup {"execution_time"}}

-----------------------------------------------------------------------------
(* RateLimiter.checkLimit *)

\* a limiter that keeps an entry one window too long
ExpiredLate(entry, t) == entry = NoEntry \/ t > entry.resetAt + MINUTE_MS

\* !entry || now > entry.resetAt
Expired(entry, t) == entry = NoEntry \/ t > entry.resetAt

\* an entry literal whose minute window is one millisecond too long
FreshEntryLate(t) ==
    [count |-> 0, resetAt |-> t + MINUTE_MS + 1,
     hourlyCount |-> 0, hourlyResetAt |-> t + HOUR_MS,
     dailyExecutionMs |-> 0, dailyResetAt |-> t + DAY_MS]

\* the entry literal of checkLimit
FreshEntry(t) ==
    [count |-> 0, resetAt |-> t + MINUTE_MS,
     hourlyCount |-> 0, hourlyResetAt |-> t + HOUR_MS,
     dailyExecutionMs |-> 0, dailyResetAt |-> t + DAY_MS]

\* if (entry.hourlyResetAt && now > entry.hourlyResetAt) { ... }
ResetHourly(entry, t) ==
    IF Truthy(entry.hourlyResetAt) /\ t > entry.hourlyResetAt
    THEN [entry EXCEPT !.hourlyCount = 0, !.hourlyResetAt = t + HOUR_MS]
    ELSE entry

\* if (entry.dailyResetAt && now > entry.dailyResetAt) { ... }
ResetDaily(entry, t) ==
    IF Truthy(entry.dailyResetAt) /\ t > entry.dailyResetAt
    THEN [entry EXCEPT !.dailyExecutionMs = 0, !.dailyResetAt = t + DAY_MS]
    ELSE entry

\* a limiter that rejects only above the ceiling
ApiCallsOver(entry, lim) == entry.count > lim.apiCallsPerMinute

\* entry.count >= limits.apiCallsPerMinute
ApiCallsExhausted(entry, lim) == entry.count >= lim.apiCallsPerMinute

\* (entry.hourlyCount || 0) >= limits.sandboxesPerHour
SandboxesExhausted(entry, lim) == OrZero(entry.hourlyCount) >= lim.sandboxesPerHour

\* a limiter that loses the update of an accepted call
CountApiCallLost(entry) == entry

\* entry.count++
CountApiCall(entry) == [entry EXCEPT !.count = entry.count + 1]

\* entry.count++; entry.hourlyCount = (entry.hourlyCount || 0) + 1
CountSandbox(entry) ==
    [entry EXCEPT !.count = entry.count + 1,
                  !.hourlyCount = OrZero(entry.hourlyCount) + 1]

\* the message of an error names no number of seconds
NoHint == Undefined

NoError == [code |-> "none", statusCode |-> 0, retryable |-> FALSE, retryAfter |-> NoHint]

\* new MCPError(code, message, statusCode, retryable); retryAfter is the number
\* of seconds the message reports (NoHint when the message reports none)
MCPError(code, statusCode, retryable, retryAfter) ==
    [code |-> code, statusCode |-> statusCode, retryable |-> retryable,
     retryAfter |-> retryAfter]

\* checkLimit on the map L of one limiter at time t: the map it leaves and
\* the error it throws (NoError when it returns true)
CheckLimit(L, userId, tier, operation, t) ==
    LET key == Key(userId, operation)
        lim == QUOTA_TIERS[tier]
        e0  == L[key]
        e1  == IF Expired(e0, t) THEN FreshEntry(t) ELSE e0
        e2  == ResetDaily(ResetHourly(e1, t), t)
    IN  IF operation = "api_call"
        THEN IF ApiCallsExhausted(e2, lim)
             THEN [limits |-> [L EXCEPT ![key] = e2],
                   error  |-> MCPError("RATE_LIMIT_EXCEEDED", 429, TRUE,
                                       CeilDiv(e2.resetAt - t, 1000))]
             ELSE [limits |-> [L EXCEPT ![key] = CountApiCall(e2)],
                   error  |-> NoError]
        ELSE IF SandboxesExhausted(e2, lim)
             THEN [limits |-> [L EXCEPT ![key] = e2],
                   error  |-> MCPError("QUOTA_EXCEEDED", 429, TRUE,
                                       CeilDiv(e2.hourlyResetAt - t, 1000))]
             ELSE [limits |-> [L EXCEPT ![key] = CountSandbox(e2)],
                   error  |-> NoError]

-----------------------------------------------------------------------------
(* RateLimiter.recordExecutionTime *)

\* !entry || now > (entry.dailyResetAt || 0)
DayExpired(entry, t) == entry = NoEntry \/ t > OrZero(entry.dailyResetAt)

\* the entry literal of recordExecutionTime: no hourly fields
FreshExecutionEntry(t) ==
    [count |-> 0, resetAt |-> t + MINUTE_MS,
     hourlyCount |-> Undefined, hourlyResetAt |-> Undefined,
     dailyExecutionMs |-> 0, dailyResetAt |-> t + DAY_MS]

\* a limiter that already rejects a total equal to the ceiling
ExecutionAtOrOver(entry, lim) == entry.dailyExecutionMs >= lim.executionTimePerDay

\* entry.dailyExecutionMs > limits.executionTimePerDay
ExecutionOver(entry, lim) == entry.dailyExecutionMs > lim.executionTimePerDay

RecordExecutionTime(L, userId, tier, executionTimeMs, t) ==
    LET key == Key(userId, "execution_time")
        lim == QUOTA_TIERS[tier]
        e0  == L[key]
        e1  == IF DayExpired(e0, t) THEN FreshExecutionEntry(t) ELSE e0
        e2  == [e1 EXCEPT !.dailyExecutionMs = OrZero(e1.dailyExecutionMs) + executionTimeMs]
    IN  [limits |-> [L EXCEPT ![key] = e2],
         error  |-> IF ExecutionOver(e2, lim)
                    THEN MCPError("QUOTA_EXCEEDED", 429, TRUE, NoHint)
                    ELSE NoError]

\* RateLimiter.getUsageStats: reads three entries, writes nothing
\* a getUsageStats that creates the entry it does not find
LimitsAfterReadingCreating(L, userId) ==
    [L EXCEPT ![userId \o ":api_call"] = IF @ = NoEntry THEN FreshEntry(0) ELSE @]

\* this.limits after getUsageStats(userId, tier): it calls this.limits.get only
LimitsAfterReading(L, userId) == L

GetUsageStats(L, userId, tier) ==
    LET lim == QUOTA_TIERS[tier]
        cur(key, field) == IF L[key] = NoEntry THEN 0 ELSE OrZero(L[key][field])
    IN  [apiCalls |-> [current |-> cur(Key(userId, "api_call"), "count"),
                       limit |-> lim.apiCallsPerMinute],
         sandboxes |-> [current |-> cur(Key(userId, "create_sandbox"), "hourlyCount"),
                        limit |-> lim.sandboxesPerHour],
         executionTime |-> [current |-> cur(Key(userId, "execution_time"), "dailyExecutionMs"),
                            limit |-> lim.executionTimePerDay]]

-----------------------------------------------------------------------------
(* Strings the validators inspect: sequences of one-character strings *)

Lower == {"a", "b", "c", "d", "e", "f", "g", "h", "i", "j", "k", "l", "m",
          "n", "o", "p", "q", "r", "s", "t", "u", "v", "w", "x", "y", "z"}
Upper == {"A", "B", "C", "D", "E", "F", "G", "H", "I", "J", "K", "L", "M",
          "N", "O", "P", "Q", "R", "S", "T", "U", "V", "W", "X", "Y", "Z"}
Digits == {"0", "1", "2", "3", "4", "5", "6", "7", "8", "9"}

\* s.startsWith(p)
StartsWith(s, p) == Len(s) >= Len(p) /\ SubSeq(s, 1, Len(p)) = p
\* s.includes(sub)
Includes(s, sub) ==
    \E i \in 1..(Len(s) - Len(sub) + 1) : SubSeq(s, i, i + Len(sub) - 1) = sub
\* /^[class]+$/.test(s)
AllIn(s, class) == Len(s) >= 1 /\ \A i \in 1..Len(s) : s[i] \in class
\* s.split(sep) for a one-character separator
RECURSIVE Split(_, _)
Split(s, sep) ==
    IF \A i \in 1..Len(s) : s[i] # sep THEN <<s>>
    ELSE LET i == CHOOSE j \in 1..Len(s) : s[j] = sep /\ \A m \in 1..(j - 1) : s[m] # sep
         IN  <<SubSeq(s, 1, i - 1)>> \o Split(SubSeq(s, i + 1, Len(s)), sep)

-----------------------------------------------------------------------------
(* services/path-validator.ts *)

\* the prefixes FORBIDDEN_PATHS anchors at the start of the path
FORBIDDEN_PATHS ==
    <<<<".", "e", "n", "v">>,
      <<".", "g", "i", "t">>,
      <<"n", "o", "d", "e", "_", "m", "o", "d", "u", "l", "e", "s">>,
      <<".", "c", "o", "d", "e", "s", "a", "n", "d", "b", "o", "x">>,
      <<"/", "e", "t", "c">>,
      <<"/", "r", "o", "o", "t">>,
      <<"/", "p", "r", "o", "c">>,
      <<"/", "s", "y", "s">>,
      <<"/", "v", "a", "r">>,
      <<"/", "u", "s", "r">>,
      <<"/", "b", "i", "n">>,
      <<"/", "s", "b", "i", "n">>,
      <<"/", "b", "o", "o", "t">>,
      <<".", "s", "s", "h">>,
      <<".", "a", "w", "s">>,
      <<".", "c", "o", "n", "f", "i", "g">>>>

\* a drive-letter test for capital letters only
HasCapitalDriveLetter(filePath) ==
    Len(filePath) >= 2 /\ filePath[1] \in Upper /\ filePath[2] = ":"

\* /^[a-zA-Z]:/.test(filePath)
HasDriveLetter(filePath) ==
    Len(filePath) >= 2 /\ filePath[1] \in Lower \cup Upper /\ filePath[2] = ":"

\* pattern.test(filePath) for some pattern of FORBIDDEN_PATHS
MatchesForbidden(filePath) ==
    \E i \in 1..Len(FORBIDDEN_PATHS) : StartsWith(filePath, FORBIDDEN_PATHS[i])

validateFilePath(filePath) ==
    /\ ~Includes(filePath, <<".", ".">>)
    /\ ~StartsWith(filePath, <<"/">>)
    /\ ~HasDriveLetter(filePath)
    /\ ~MatchesForbidden(filePath)

\* [a-zA-Z0-9._/-]
NameChars == Lower \cup Upper \cup Digits \cup {".", "_", "/", "-"}

validateBranchName(branchName) ==
    /\ AllIn(branchName, NameChars)
    /\ ~Includes(branchName, <<" ">>)
    /\ ~Includes(branchName, <<".", ".">>)
    /\ ~Includes(branchName, <<"/", "/">>)

\* property names every object literal and every parsed JSON object inherits
\* from Object.prototype (some of them)
ObjectPrototype ==
    {<<"c", "o", "n", "s", "t", "r", "u", "c", "t", "o", "r">>,
     <<"t", "o", "S", "t", "r", "i", "n", "g">>,
     <<"v", "a", "l", "u", "e", "O", "f">>,
     <<"h", "a", "s", "O", "w", "n", "P", "r", "o", "p", "e", "r", "t", "y">>,
     <<"_", "_", "p", "r", "o", "t", "o", "_", "_">>}

\* repoId in allowedRepos: the in operator looks at own and inherited properties
validateRepoId(repoId, allowedRepos) ==
    repoId \in DOMAIN allowedRepos \/ repoId \in ObjectPrototype

\* assertValidFilePath, assertValidBranchName, assertValidRepoId: the error thrown
assertValidFilePath(filePath) ==
    IF validateFilePath(filePath) THEN NoError
    ELSE MCPError("PATH_TRAVERSAL", 403, FALSE, NoHint)

assertValidBranchName(branchName) ==
    IF validateBranchName(branchName) THEN NoError
    ELSE MCPError("INVALID_BRANCH", 400, FALSE, NoHint)

assertValidRepoId(repoId, allowedRepos) ==
    IF validateRepoId(repoId, allowedRepos) THEN NoError
    ELSE MCPError("INVALID_REPO", 403, FALSE, NoHint)

-----------------------------------------------------------------------------
(* types/index.ts: the Zod schemas, and middleware/validation.ts *)

\* filePathSchema
filePathSchema(val) ==
    /\ AllIn(val, NameChars)
    /\ ~StartsWith(val, <<"/">>)
    /\ ~Includes(val, <<".", ".">>)

\* branchNameSchema
branchNameSchema(val) ==
    /\ AllIn(val, NameChars)
    /\ ~Includes(val, <<".", ".">>)
    /\ ~Includes(val, <<"/", "/">>)

-----------------------------------------------------------------------------
(* middleware/error-handler.ts sanitizeParameters; services/audit-logger.ts *)

\* key.toLowerCase()
ToLowerCase(key) ==
    LET upper == <<"A", "B", "C", "D", "E", "F", "G", "H", "I", "J", "K", "L", "M", "N", "O", "P", "Q", "R", "S", "T", "U", "V", "W", "X", "Y", "Z">>
        lower == <<"a", "b", "c", "d", "e", "f", "g", "h", "i", "j", "k", "l", "m", "n", "o", "p", "q", "r", "s", "t", "u", "v", "w", "x", "y", "z">>
    IN  [i \in 1..Len(key) |->
           IF \E n \in 1..26 : upper[n] = key[i]
           THEN lower[CHOOSE n \in 1..26 : upper[n] = key[i]]
           ELSE key[i]]

\* JSON values: a string (its text), null, an object (val: its fields, a map
\* from keys to values) or an array (elems: its elements in order)
Str(text) == [type |-> "string", text |-> text, val |-> <<>>, elems |-> <<>>]
JsonNull == [type |-> "null", text |-> "", val |-> <<>>, elems |-> <<>>]
Obj(fields) == [type |-> "object", text |-> "", val |-> fields, elems |-> <<>>]
Arr(elems) == [type |-> "array", text |-> "", val |-> <<>>, elems |-> elems]

REDACTED == Str("[REDACTED]")

sensitiveKeys ==
    <<<<"t", "o", "k", "e", "n">>, <<"s", "e", "c", "r", "e", "t">>, <<"a", "p", "i", "_", "k", "e", "y">>, <<"a", "p", "i", "K", "e", "y">>, <<"p", "a", "s", "s", "w", "o", "r", "d">>, <<"a", "u", "t", "h">>>>

\* the test without toLowerCase
isSensitiveAsSpelled(key) ==
    \E i \in 1..Len(sensitiveKeys) : Includes(key, sensitiveKeys[i])

\* sensitiveKeys.some(sensitiveKey => lowerKey.includes(sensitiveKey.toLowerCase()))
isSensitive(key) ==
    \E i \in 1..Len(sensitiveKeys) :
        Includes(ToLowerCase(key), ToLowerCase(sensitiveKeys[i]))

\* a marker that differs for a value that is the marker already
RedactToggling(value) == IF value = REDACTED THEN Str("") ELSE REDACTED

\* sanitized[key] = '[REDACTED]'
Redact(value) == REDACTED

\* Object.entries(params) of an array are its indices, as strings, with its
\* elements; typeof is 'object' for arrays too; the result is built as {}
RECURSIVE sanitizeParameters(_)
sanitizeParameters(params) ==
    LET index == <<"0", "1", "2", "3", "4", "5", "6", "7", "8", "9">>
        entries ==
          IF params.type = "array"
          THEN [key \in {<<index[i]>> : i \in DOMAIN params.elems} |->
                  params.elems[CHOOSE i \in DOMAIN params.elems : <<index[i]>> = key]]
          ELSE params.val
    IN  Obj([key \in DOMAIN entries |->
               IF isSensitive(key) THEN Redact(entries[key])
               ELSE IF entries[key].type \in {"object", "array"}
                    THEN sanitizeParameters(entries[key])
                    ELSE entries[key]])

\* an optional argument that was not passed, and SQL NULL
UndefinedText == "<undefined>"
NullText == "<null>"

\* value || null
OrNull(value) == IF value = UndefinedText \/ value = "" THEN NullText ELSE value

\* value || undefined
OrUndefined(value) == IF value = NullText \/ value = "" THEN UndefinedText ELSE value

\* sha256 over JSON.stringify of the eight fields, taken as collision-free:
\* the digest is the serialised text, in which an undefined field is left out
generateHash(entry) ==
    [sha256 |-> <<entry.timestamp, entry.user_id, entry.tool_name, entry.parameters,
                  entry.result, entry.error, entry.sandbox_id, entry.execution_time_ms>>]

\* the row AuditLogger.log inserts at time t: the entry it builds, its digest,
\* and the values stmt.run binds
LogRow(userId, toolName, parameters, result, executionTimeMs, error, sandboxId, t) ==
    LET entryWithoutHash ==
          [timestamp |-> t, user_id |-> userId, tool_name |-> toolName,
           parameters |-> sanitizeParameters(parameters), result |-> result,
           error |-> error, sandbox_id |-> sandboxId,
           execution_time_ms |-> executionTimeMs]
    IN  [timestamp |-> entryWithoutHash.timestamp,
         user_id |-> entryWithoutHash.user_id,
         tool_name |-> entryWithoutHash.tool_name,
         parameters |-> entryWithoutHash.parameters,
         result |-> entryWithoutHash.result,
         error |-> OrNull(entryWithoutHash.error),
         sandbox_id |-> OrNull(entryWithoutHash.sandbox_id),
         execution_time_ms |-> entryWithoutHash.execution_time_ms,
         hash |-> generateHash(entryWithoutHash)]

\* rows.map(row => ({...})) of queryLogs: the AuditLog a stored row is returned as
RowToEntry(row) ==
    [row EXCEPT !.error = OrUndefined(row.error), !.sandbox_id = OrUndefined(row.sandbox_id)]

verifyIntegrity(entries) ==
    \A i \in 1..Len(entries) : generateHash(entries[i]) = entries[i].hash

\* the filters of a queryLogs call; UndefinedText, Undefined: not given
NoFilters ==
    [userId |-> UndefinedText, toolName |-> UndefinedText, result |-> UndefinedText,
     startDate |-> Undefined, endDate |-> Undefined, limit |-> Undefined]

\* the WHERE clause queryLogs builds
Matches(row, filters) ==
    /\ (filters.userId # UndefinedText /\ filters.userId # "") => row.user_id = filters.userId
    /\ (filters.toolName # UndefinedText /\ filters.toolName # "")
          => row.tool_name = filters.toolName
    /\ (filters.result # UndefinedText /\ filters.result # "") => row.result = filters.result
    /\ filters.startDate # Undefined => row.timestamp >= filters.startDate
    /\ filters.endDate # Undefined => row.timestamp <= filters.endDate

\* the orders in which ORDER BY timestamp DESC may return the rows with the
\* given rowids: rows with equal timestamps come in an order SQL leaves open
Orderings(db, ids) ==
    {q \in [1..Cardinality(ids) -> ids] :
        /\ \A i, j \in DOMAIN q : i # j => q[i] # q[j]
        /\ \A i, j \in DOMAIN q : i < j => db[q[i]].timestamp >= db[q[j]].timestamp}

\* LIMIT ?, added when filters.limit is truthy
Limited(q, filters) ==
    IF Truthy(filters.limit) /\ filters.limit < Len(q) THEN SubSeq(q, 1, filters.limit) ELSE q

\* what queryLogs may return for the table db: the rowids in result order and
\* the AuditLog of each
queryLogs(db, filters) ==
    {[ids |-> Limited(q, filters),
      rows |-> [i \in DOMAIN Limited(q, filters) |-> RowToEntry(db[q[i]])]]
        : q \in Orderings(db, {id \in DOMAIN db : Matches(db[id], filters)})}

\* called: log was called; returned: it returned to its caller (it did not
\* throw); built: it built its record; stored: it inserted its row
NoLog == [called |-> FALSE, returned |-> FALSE, built |-> FALSE, stored |-> FALSE]
NoQuery == [filters |-> NoFilters, ids |-> <<>>, rows |-> <<>>, asked |-> FALSE]
NoVerify == [entries |-> <<>>, result |-> FALSE, asked |-> FALSE]
\* fn: the function called directly (none yet)
NoProbe == [fn |-> "none"]

-----------------------------------------------------------------------------
(* Tool requests *)

Sessions == {"s1", "s2"}
\* the ids generateUUID and the sandbox service hand out
SandboxIds == {"sb1", "sb2"}

P_ok == <<"a", ".", "t", "s">>
P_env == <<".", "e", "n", "v">>
P_dotenv == <<".", "/", ".", "e", "n", "v">>
P_up == <<".", ".", "/", "x">>
P_abs == <<"/", "e", "t", "c">>
Paths == {P_ok, P_env, P_dotenv, P_up, P_abs}
\* a second path the validator accepts
P_src == <<"b", ".", "t", "s">>

B_main == <<"m", "a", "i", "n">>
B_dots == <<"a", ".", ".", "b">>
B_space == <<"a", " ", "b">>
Branches == {B_main, B_dots, B_space}

R_ok == <<"o", "/", "r">>
R_env == <<"o", "_", "r">>
R_no == <<"x", "/", "y">>
Repos == {R_ok, R_env, R_no}
\* config.get('github_token_map'): repository id -> credential
TokenMap == (R_ok :> "token-1") @@ (R_env :> "token-2")

\* the files records of the requests, keys in insertion order
FileLists == {<<>>, <<P_ok>>, <<P_env>>, <<P_dotenv>>, <<P_up>>, <<P_ok, P_env>>}

Tools == {"create_sandbox_for_project", "write_files_to_sandbox", "get_sandbox_output",
          "commit_and_push_to_github", "read_github_file"}

\* wellFormed: whether the fields not spelled out here (project_name, template,
\* sandbox_id format, output_type, commit_message, file sizes) pass their
\* schemas; create_pr: create_pr is set and a pr_title comes with it
NoRequest ==
    [tool |-> "none", wellFormed |-> TRUE, files |-> <<>>, file_path |-> <<>>,
     branch |-> <<>>, repo_id |-> <<>>, sandbox_id |-> "", output_type |-> "",
     create_pr |-> FALSE]

Requests ==
    {[NoRequest EXCEPT !.tool = "create_sandbox_for_project", !.files = fs] : fs \in FileLists}
    \cup
    {[NoRequest EXCEPT !.tool = "create_sandbox_for_project", !.wellFormed = FALSE]}
    \cup
    {[NoRequest EXCEPT !.tool = "write_files_to_sandbox", !.sandbox_id = id, !.files = fs]
        : id \in SandboxIds, fs \in FileLists \ {<<>>}}
    \cup
    {[NoRequest EXCEPT !.tool = "get_sandbox_output", !.sandbox_id = id, !.output_type = ot]
        : id \in {"sb1"}, ot \in {"console_log", "build_output", "preview_url"}}
    \cup
    {[NoRequest EXCEPT !.tool = "get_sandbox_output", !.wellFormed = FALSE, !.sandbox_id = "sb1",
                       !.output_type = "preview_url"]}
    \cup
    {[NoRequest EXCEPT !.tool = "commit_and_push_to_github", !.repo_id = r, !.branch = b,
                       !.files = fs]
        : r \in Repos, b \in {B_main, B_dots}, fs \in {<<P_ok>>, <<P_env>>}}
    \cup
    {[NoRequest EXCEPT !.tool = "commit_and_push_to_github", !.repo_id = R_ok, !.branch = B_main,
                       !.files = <<P_ok>>, !.create_pr = TRUE]}
    \cup
    {[NoRequest EXCEPT !.tool = "read_github_file", !.repo_id = r, !.file_path = P_ok, !.branch = b]
        : r \in Repos, b \in Branches}
    \cup
    {[NoRequest EXCEPT !.tool = "read_github_file", !.repo_id = R_ok, !.file_path = f,
                       !.branch = B_main]
        : f \in Paths}

\* the limiter object of the module that defines the tool's handler
LimiterOf(tool) ==
    IF tool \in {"commit_and_push_to_github", "read_github_file"}
    THEN "github-tools" ELSE "sandbox-tools"

\* the file paths a request names
PathsOf(req) ==
    IF req.tool = "read_github_file" THEN {req.file_path}
    ELSE {req.files[i] : i \in 1..Len(req.files)}

\* validateInput(schema, params): the error it throws
validateInput(req) ==
    LET ok ==
          /\ req.wellFormed
          /\ req.tool \in {"create_sandbox_for_project", "write_files_to_sandbox",
                           "commit_and_push_to_github"}
                => \A i \in 1..Len(req.files) : filePathSchema(req.files[i])
          /\ req.tool = "commit_and_push_to_github"
                => Len(req.repo_id) >= 1 /\ branchNameSchema(req.branch)
          /\ req.tool = "read_github_file"
                => Len(req.repo_id) >= 1 /\ filePathSchema(req.file_path)
    IN  IF ok THEN NoError ELSE MCPError("VALIDATION_ERROR", 400, FALSE, NoHint)

\* the checkLimit calls of a handler on the map L of its limiter at time t
HandlerCheckLimit(L, tool, userId, t) ==
    LET a == CheckLimit(L, userId, "free", "api_call", t)
    IN  IF tool = "create_sandbox_for_project" /\ a.error = NoError
        THEN CheckLimit(a.limits, userId, "free", "create_sandbox", t)
        ELSE a

-----------------------------------------------------------------------------
(* services/sandbox-manager.ts (both implementations), services/github-manager.ts *)

NoSandbox == [exists |-> FALSE, files |-> {}]

\* the first failing assertValidFilePath over Object.keys(files), in order
RECURSIVE AssertValidFilePaths(_)
AssertValidFilePaths(files) ==
    IF files = <<>> THEN NoError
    ELSE IF assertValidFilePath(Head(files)) # NoError THEN assertValidFilePath(Head(files))
    ELSE AssertValidFilePaths(Tail(files))

\* GitHubManager.parseRepoId: the error it throws
parseRepoId(repoId) ==
    IF Len(Split(repoId, "/")) # 2 THEN MCPError("INVALID_REPO", 400, FALSE, NoHint) ELSE NoError

\* the first error of a sequence of checks
RECURSIVE FirstError(_)
FirstError(errors) ==
    IF errors = <<>> THEN NoError
    ELSE IF Head(errors) # NoError THEN Head(errors) ELSE FirstError(Tail(errors))

\* what a manager method throws before its first await: the checks it makes on
\* its input, in the order it makes them
ManagerValidate(req, mgr, boxes) ==
    CASE req.tool = "create_sandbox_for_project" -> AssertValidFilePaths(req.files)
      [] req.tool = "write_files_to_sandbox" ->
            IF mgr = "mock"
            THEN FirstError(<<IF boxes[req.sandbox_id].exists THEN NoError
                              ELSE MCPError("SANDBOX_NOT_FOUND", 404, FALSE, NoHint),
                              AssertValidFilePaths(req.files)>>)
            ELSE AssertValidFilePaths(req.files)
      [] req.tool = "get_sandbox_output" ->
            IF mgr = "mock" /\ ~boxes[req.sandbox_id].exists
            THEN MCPError("SANDBOX_NOT_FOUND", 404, FALSE, NoHint) ELSE NoError
      [] req.tool = "commit_and_push_to_github" ->
            FirstError(<<assertValidRepoId(req.repo_id, TokenMap),
                         assertValidBranchName(req.branch),
                         AssertValidFilePaths(req.files),
                         parseRepoId(req.repo_id)>>)
      [] req.tool = "read_github_file" ->
            FirstError(<<assertValidRepoId(req.repo_id, TokenMap),
                         assertValidFilePath(req.file_path),
                         parseRepoId(req.repo_id)>>)

\* whether the error a manager's validation raised is one of the validator's
IsValidationError(e) ==
    e.code \in {"VALIDATION_ERROR", "PATH_TRAVERSAL", "INVALID_BRANCH", "INVALID_REPO"}

\* what the catch block of a manager method throws for the error it caught
\* (mcp: whether that error is an MCPError)
ManagerRethrow(req, mgr, e, mcp) ==
    CASE req.tool \in {"commit_and_push_to_github", "read_github_file"} ->
            IF mcp THEN e ELSE MCPError("GITHUB_AUTH_FAILED", 500, TRUE, NoHint)
      [] mgr = "mock" -> e
      [] req.tool = "get_sandbox_output" -> MCPError("SANDBOX_NOT_FOUND", 404, FALSE, NoHint)
      \* ERROR_CODES has no EXTERNAL_SERVICE_ERROR member: the code is undefined
      [] OTHER -> MCPError("undefined", 500, TRUE, NoHint)

\* a call to a downstream provider and what it carries
Call(svc, op, req, path) ==
    [svc |-> svc, op |-> op, path |-> path,
     branch |-> IF op \in {"git.getRef", "git.updateRef", "pulls.create", "repos.getContent"}
                THEN req.branch ELSE <<>>,
     repo_id |-> IF svc = "github" THEN req.repo_id ELSE <<>>]

\* the awaited provider calls of a manager method, in order
Plan(req, mgr) ==
    LET writes == [i \in 1..Len(req.files) |-> Call("codesandbox", "filesystem.writeFile", req, req.files[i])]
    IN  CASE req.tool \in {"create_sandbox_for_project", "write_files_to_sandbox",
                           "get_sandbox_output"} /\ mgr = "mock" -> <<>>
          [] req.tool = "create_sandbox_for_project" ->
                <<Call("codesandbox", "sandboxes.create", req, <<>>)>>
                \o (IF Len(req.files) > 0
                    THEN <<Call("codesandbox", "sandbox.connect", req, <<>>)>> \o writes
                    ELSE <<>>)
          [] req.tool = "write_files_to_sandbox" ->
                <<Call("codesandbox", "sandboxes.resume", req, <<>>),
                  Call("codesandbox", "sandbox.connect", req, <<>>)>> \o writes
          [] req.tool = "get_sandbox_output" ->
                IF req.output_type = "preview_url" THEN <<>>
                ELSE <<Call("codesandbox", "sandboxes.resume", req, <<>>),
                       Call("codesandbox", "sandbox.connect", req, <<>>)>>
                     \o (IF req.output_type = "console_log"
                         THEN <<Call("codesandbox", "terminals.create", req, <<>>),
                                Call("codesandbox", "terminal.read", req, <<>>)>>
                         ELSE <<>>)
          [] req.tool = "commit_and_push_to_github" ->
                <<Call("github", "repos.get", req, <<>>),
                  Call("github", "users.getAuthenticated", req, <<>>),
                  Call("github", "git.getRef", req, <<>>),
                  Call("github", "git.getCommit", req, <<>>)>>
                \o [i \in 1..Len(req.files) |-> Call("github", "git.createBlob", req, req.files[i])]
                \o <<Call("github", "git.createTree", req, <<>>),
                     Call("github", "git.createCommit", req, <<>>),
                     Call("github", "git.updateRef", req, <<>>)>>
                \o (IF req.create_pr
                    THEN <<Call("github", "pulls.create", req, <<>>)>> ELSE <<>>)
          [] req.tool = "read_github_file" ->
                <<Call("github", "repos.getContent", req, req.file_path)>>

\* how a provider may answer a call
Answers(call) ==
    CASE call.op = "repos.get" -> {"ok", "fail", "no-push"}
      [] call.op = "repos.getContent" -> {"ok", "fail", "not-a-file"}
      [] OTHER -> {"ok", "fail"}

\* the error a manager method's try block raises for an answer other than ok,
\* and whether it is an MCPError
AnswerError(call, answer) ==
    CASE call.op = "repos.get" /\ answer = "no-push" ->
            [error |-> MCPError("PERMISSION_DENIED", 403, FALSE, NoHint), mcp |-> TRUE]
      [] call.op \in {"repos.get", "users.getAuthenticated"} ->
            [error |-> MCPError("GITHUB_AUTH_FAILED", 401, FALSE, NoHint), mcp |-> TRUE]
      [] call.op = "git.getRef" ->
            [error |-> MCPError("INVALID_BRANCH", 404, FALSE, NoHint), mcp |-> TRUE]
      [] call.op = "repos.getContent" /\ answer = "not-a-file" ->
            [error |-> MCPError("INVALID_REPO", 400, FALSE, NoHint), mcp |-> TRUE]
      [] OTHER -> [error |-> MCPError("provider-error", 0, FALSE, NoHint), mcp |-> FALSE]

\* the name a manager method logs its audit rows under
ManagerToolName(tool) ==
    CASE tool = "create_sandbox_for_project" -> "create_sandbox"
      [] tool = "write_files_to_sandbox" -> "write_files"
      [] tool = "get_sandbox_output" -> "get_sandbox_output"
      [] tool = "commit_and_push_to_github" -> "commit_and_push"
      [] tool = "read_github_file" -> "read_github_file"

\* the row AuditLogger.log inserts
AuditRow(userId, toolName, result, executionTimeMs, sandboxId, t) ==
    [timestamp |-> t, user_id |-> userId, tool_name |-> toolName, result |-> result,
     sandbox_id |-> sandboxId, execution_time_ms |-> executionTimeMs]

\* pc: idle, await (a provider call is pending) or done; step: the index of the
\* pending call in the plan; error: what the handler threw (NoError: it returned);
\* audits: rows logged for the call; issued: provider calls issued for it;
\* invalid: a schema, path, branch or repository validation failed for it;
\* managed: the handler reached its manager method
IdleSession ==
    [pc |-> "idle", req |-> NoRequest, startTime |-> 0, step |-> 0, error |-> NoError,
     audits |-> 0, issued |-> 0, invalid |-> FALSE, managed |-> FALSE, sandbox |-> ""]

InitGateway ==
    /\ impl \in {"mock", "sdk"}
    /\ sess = [s \in Sessions |-> IdleSession]
    /\ reqCount = 0
    /\ ledger = <<>>
    /\ provider = {}
    /\ sandboxes = [id \in SandboxIds |-> NoSandbox]
    /\ pushed = {}
    /\ octokitCache = [r \in {} |-> ""]
    /\ alerts = 0
    /\ lastLog = NoLog
    /\ lastQuery = NoQuery
    /\ lastVerify = NoVerify
    /\ probe = NoProbe

-----------------------------------------------------------------------------
(* SpecLimiter, SpecExecution: one RateLimiter driven through its public   *)
(* methods while the clock advances.                                       *)

MaxRecords == 4
\* measured durations handed to recordExecutionTime, ms
Durations == {0, 1, 1800000, 3600000, 86400000}
\* the length of the fixed window an operation class is budgeted over
WindowLen(operation) == IF operation = "api_call" THEN MINUTE_MS ELSE HOUR_MS
\* the ceiling of an operation class in a tier
Ceiling(tier, operation) ==
    IF operation = "api_call" THEN QUOTA_TIERS[tier].apiCallsPerMinute
    ELSE QUOTA_TIERS[tier].sandboxesPerHour
\* the error kind a throttled admit of an operation class carries
ThrottleCode(operation) ==
    IF operation = "api_call" THEN "RATE_LIMIT_EXCEEDED" ELSE "QUOTA_EXCEEDED"

\* start: when the window opened; n: checkLimit calls in it; admitted: those
\* accepted; error, pastReset, wasExhausted: the latest call's result, whether
\* it came after the entry's resetAt, and whether it found the entry exhausted;
\* sinceReset: calls accepted since the key's entry was last created
NoWindow == [start |-> Undefined, n |-> 0, admitted |-> 0, error |-> NoError,
             pastReset |-> FALSE, wasExhausted |-> FALSE, sinceReset |-> 0]
\* the window a call at time t falls in: the open one while t is not past its
\* boundary, a fresh one otherwise
WindowAt(w, t, len) ==
    IF w.start = Undefined \/ t > w.start + len THEN [NoWindow EXCEPT !.start = t] ELSE w

\* start: when the daily window opened; before, total: the cumulative duration
\* before and after the latest call; error: its result
NoDay == [start |-> Undefined, before |-> 0, total |-> 0, error |-> NoError]

\* the record of a key's window after a checkLimit call at time t that found
\* the entry old and ended with error
Observe(w0, old, error, tier, operation, t) ==
    LET w   == WindowAt(w0, t, WindowLen(operation))
        acc == IF error = NoError THEN 1 ELSE 0
    IN  [start |-> w.start, n |-> w.n + 1, admitted |-> w.admitted + acc, error |-> error,
         pastReset |-> old # NoEntry /\ t > old.resetAt,
         wasExhausted |-> /\ old # NoEntry
                          /\ IF operation = "api_call"
                             THEN old.count >= Ceiling(tier, operation)
                             ELSE old.hourlyCount >= Ceiling(tier, operation),
         sinceReset |-> (IF old = NoEntry \/ t > old.resetAt THEN 0 ELSE w0.sinceReset) + acc]

InitLimiter ==
    /\ now = 0
    /\ ticks = 0
    /\ calls = 0
    /\ subject \in Users
    /\ limits = [rl \in Limiters |-> [k \in AllKeys |-> NoEntry]]
    /\ win = [k \in AllKeys |-> NoWindow]
    /\ day = [u \in AllUsers |-> NoDay]
    /\ InitGateway
    /\ impl = "sdk"

\* rateLimiter.checkLimit(userId, tier, operation), called directly
DirectCheckLimit(userId, operation) ==
    LET tier == TierOf[userId]
        key  == Key(userId, operation)
        old  == limits[UnderTest][key]
        r    == CheckLimit(limits[UnderTest], userId, tier, operation, now)
    IN  /\ calls < MaxCalls
        /\ calls' = calls + 1
        /\ limits' = [limits EXCEPT ![UnderTest] = r.limits]
        /\ win' = [win EXCEPT ![key] = Observe(@, old, r.error, tier, operation, now)]
        /\ UNCHANGED <<now, ticks, subject, day>>

\* rateLimiter.recordExecutionTime(userId, tier, executionTimeMs), called directly
DirectRecordExecutionTime(userId, executionTimeMs) ==
    LET tier == TierOf[userId]
        r    == RecordExecutionTime(limits[UnderTest], userId, tier, executionTimeMs, now)
        d    == IF day[userId].start = Undefined \/ now > day[userId].start + DAY_MS
                THEN [NoDay EXCEPT !.start = now] ELSE day[userId]
    IN  /\ calls < MaxRecords
        /\ calls' = calls + 1
        /\ limits' = [limits EXCEPT ![UnderTest] = r.limits]
        /\ day' = [day EXCEPT ![userId] =
                     [start |-> d.start, before |-> d.total,
                      total |-> d.total + executionTimeMs, error |-> r.error]]
        /\ UNCHANGED <<now, ticks, subject, win>>

\* rateLimiter.getUsageStats(userId, tier), called directly: it returns the
\* snapshot and assigns nothing
DirectGetUsageStats(userId) ==
    /\ GetUsageStats(limits[UnderTest], userId, TierOf[userId]).apiCalls.current >= 0
    /\ UNCHANGED limiterVars

\* the instants the clock may jump to: each window boundary of the given
\* fields that an entry holds, and the millisecond after it
TickTargets(fields) ==
    UNION {LET e == limits[rl][k]
           IN  IF e = NoEntry THEN {}
               ELSE UNION {{e[f], e[f] + 1} : f \in {g \in fields : e[g] # Undefined}}
           : rl \in Limiters, k \in AllKeys}

\* Date.now() advances
Tick(fields) ==
    /\ ticks < MaxTicks
    /\ \E t \in TickTargets(fields) : t > now /\ now' = t
    /\ ticks' = ticks + 1
    /\ UNCHANGED <<calls, limits, subject, win, day>>

NextLimiter ==
    \/ \E op \in Operations : DirectCheckLimit(subject, op) /\ UNCHANGED gatewayVars
    \/ DirectGetUsageStats(subject) /\ UNCHANGED gatewayVars
    \/ Tick({"resetAt", "hourlyResetAt"}) /\ UNCHANGED gatewayVars

SpecLimiter == InitLimiter /\ [][NextLimiter]_vars

NextExecution ==
    \/ \E ms \in Durations : DirectRecordExecutionTime(subject, ms) /\ UNCHANGED gatewayVars
    \/ DirectGetUsageStats(subject) /\ UNCHANGED gatewayVars
    \/ Tick({"dailyResetAt"}) /\ UNCHANGED gatewayVars

SpecExecution == InitLimiter /\ [][NextExecution]_vars

-----------------------------------------------------------------------------
(* Claims about the limiter *)

\* C1: for an identity and operation class with tier ceiling N, counting the
\* checkLimit calls from the start of a fresh window (one minute for api_call,
\* one hour for create_sandbox), each of the first N calls in the window is
\* accepted and call N+1 is rejected with the class's throttling kind.
C1_FirstNAcceptedThenThrottled ==
    \A op \in Operations :
        LET w == win[Key(subject, op)]
            N == Ceiling(TierOf[subject], op)
        IN  w.n > 0 =>
              /\ w.n <= N => w.error = NoError
              /\ w.n = N + 1 => w.error.code = ThrottleCode(op)

\* C2: the creations-this-hour counter of a create_sandbox key drops only in
\* a call made after the key's hourly reset timestamp, and within one hourly
\* window no more than sandboxesPerHour admits of the key are accepted.
C2_HourlyCounterResetOnlyAtHourBoundary ==
    [][\A u \in Users :
         LET k  == Key(u, "create_sandbox")
             e  == limits[UnderTest][k]
             e2 == limits'[UnderTest][k]
         IN  /\ (e # NoEntry /\ e2.hourlyCount < e.hourlyCount) => now' > e.hourlyResetAt
             /\ win'[k].admitted <= Ceiling(TierOf[u], "create_sandbox")
      ]_vars

\* C3: a checkLimit call that arrives after the resetAt of its key's entry
\* (now > resetAt) is accepted.
C3_AcceptedAfterReset ==
    \A op \in Operations :
        LET w == win[Key(subject, op)]
        IN  (w.n > 0 /\ w.pastReset) => w.error = NoError

\* C3 witness: a call past resetAt found its entry exhausted and was accepted
C3_Witness ==
    \E op \in Operations :
        LET w == win[Key(subject, op)]
        IN  w.n > 0 /\ w.pastReset /\ w.wasExhausted /\ w.error = NoError

\* C4: within one daily window recordExecutionTime raises QUOTA_EXCEEDED on the
\* call whose duration takes the cumulative total over the tier's daily
\* ceiling, and raises nothing while the total is at most the ceiling.
C4_QuotaExceededExactlyOnCrossing ==
    \A u \in Users :
        LET d   == day[u]
            lim == QUOTA_TIERS[TierOf[u]].executionTimePerDay
        IN  d.start # Undefined =>
              /\ (d.before <= lim /\ d.total > lim) => d.error.code = "QUOTA_EXCEEDED"
              /\ d.total <= lim => d.error = NoError

\* C4 witness: a total equal to the ceiling was reached, and the next call
\* crossed it and raised
C4_Witness ==
    \E u \in Users :
        LET d   == day[u]
            lim == QUOTA_TIERS[TierOf[u]].executionTimePerDay
        IN  d.before = lim /\ d.total > lim /\ d.error.code = "QUOTA_EXCEEDED"

-----------------------------------------------------------------------------
(* Spec, SpecSessions: the tool handlers, called as the server calls them   *)
(* (userId 'default_user').  A handler runs from its start to its first     *)
(* pending provider call, or to its end, in one step; each provider answer  *)
(* resumes it to the next pending call or to its end.                       *)

\* the sandbox a manager method acts on
TargetSandbox(se) ==
    IF se.req.tool = "create_sandbox_for_project" THEN se.sandbox ELSE se.req.sandbox_id

\* the sandbox_id argument of a manager method's auditLogger.log call
LoggedSandbox(se, result) ==
    IF se.req.tool \in {"commit_and_push_to_github", "read_github_file"} THEN ""
    ELSE IF se.req.tool = "create_sandbox_for_project" /\ result = "failure" THEN ""
    ELSE TargetSandbox(se)

\* the handler returns or throws: error is what it threw (NoError: it returned)
Finish(se, error) == [se EXCEPT !.pc = "done", !.error = error]

\* the manager method logs its row and the handler finishes
ManagerFinish(s, se, result, error) ==
    /\ ledger' = Append(ledger, AuditRow(DefaultUser, ManagerToolName(se.req.tool), result,
                                         now - se.startTime, LoggedSandbox(se, result), now))
    /\ sess' = [sess EXCEPT ![s] = Finish([se EXCEPT !.audits = se.audits + 1], error)]

\* this.tokenMap[repoId]: the own property, or else the member the map
\* inherits from Object.prototype under that name
TokenOf(repoId) ==
    IF repoId \in DOMAIN TokenMap THEN TokenMap[repoId] ELSE "inherited"

\* a manager that builds one client and hands it out for every repository
GetOctokitShared(cache, req) ==
    IF req.repo_id \in DOMAIN cache THEN cache
    ELSE IF DOMAIN cache = {} THEN (req.repo_id :> TokenOf(req.repo_id))
    ELSE cache @@ (req.repo_id :> cache[CHOOSE r \in DOMAIN cache : TRUE])

\* getOctokit(repoId) after the asserts of commitAndPush and readFile passed
GetOctokit(cache, req) ==
    IF req.repo_id \in DOMAIN cache THEN cache ELSE cache @@ (req.repo_id :> TokenOf(req.repo_id))

\* the Octokit client a manager method obtained before its validation threw e
CacheAfter(cache, req, e) ==
    IF /\ req.tool \in {"commit_and_push_to_github", "read_github_file"}
       /\ (e = NoError \/ e = parseRepoId(req.repo_id))
       /\ assertValidRepoId(req.repo_id, TokenMap) = NoError
    THEN GetOctokit(cache, req) ELSE cache

\* the window records after the checkLimit calls of a handler
ObserveHandler(W, L, tool, t) ==
    LET ka == Key(DefaultUser, "api_call")
        kc == Key(DefaultUser, "create_sandbox")
        a  == CheckLimit(L, DefaultUser, "free", "api_call", t)
        c  == CheckLimit(a.limits, DefaultUser, "free", "create_sandbox", t)
        W1 == [W EXCEPT ![ka] = Observe(@, L[ka], a.error, "free", "api_call", t)]
    IN  IF tool = "create_sandbox_for_project" /\ a.error = NoError
        THEN [W1 EXCEPT ![kc] = Observe(@, L[kc], c.error, "free", "create_sandbox", t)]
        ELSE W1

\* a tool handler from its call to its first await on a provider (or its end)
Begin(s, req) ==
    LET rl == LimiterOf(req.tool)
        v  == validateInput(req)
        a  == HandlerCheckLimit(limits[rl], req.tool, DefaultUser, now)
        m  == ManagerValidate(req, impl, sandboxes)
        plan == Plan(req, impl)
        se == [IdleSession EXCEPT !.req = req, !.startTime = now]
    IN  /\ sess[s].pc \in {"idle", "done"}
        /\ reqCount' = reqCount + 1
        /\ UNCHANGED <<now, ticks, impl, pushed, calls, subject, day>>
        /\ IF v # NoError
           THEN \* validateInput threw: the catch block logs nothing
                /\ sess' = [sess EXCEPT ![s] = Finish([se EXCEPT !.invalid = TRUE], v)]
                /\ UNCHANGED <<limits, win, ledger, provider, sandboxes, octokitCache>>
           ELSE
           /\ limits' = [limits EXCEPT ![rl] = a.limits]
           /\ win' = IF rl = UnderTest THEN ObserveHandler(win, limits[rl], req.tool, now)
                     ELSE win
           /\ IF a.error # NoError
              THEN \* checkLimit threw: the catch block logs RATE_LIMIT_EXCEEDED only
                   /\ IF a.error.code = "RATE_LIMIT_EXCEEDED"
                      THEN /\ ledger' = Append(ledger, AuditRow(DefaultUser, req.tool,
                                                                "rate_limited", 0, "", now))
                           /\ sess' = [sess EXCEPT ![s] =
                                         Finish([se EXCEPT !.audits = 1], a.error)]
                      ELSE /\ sess' = [sess EXCEPT ![s] = Finish(se, a.error)]
                           /\ UNCHANGED ledger
                   /\ UNCHANGED <<provider, sandboxes, octokitCache>>
              ELSE
              LET sm == [se EXCEPT !.managed = TRUE] IN
              /\ octokitCache' = CacheAfter(octokitCache, req, m)
              /\ IF m # NoError
                 THEN \* the manager's own checks threw inside its try block
                      /\ ManagerFinish(s, [sm EXCEPT !.invalid = IsValidationError(m)],
                                       "failure", ManagerRethrow(req, impl, m, TRUE))
                      /\ UNCHANGED <<provider, sandboxes>>
                 ELSE IF plan # <<>>
                 THEN \* the first provider call goes out
                      /\ provider' = provider \cup {plan[1]}
                      /\ sess' = [sess EXCEPT ![s] =
                                    [sm EXCEPT !.pc = "await", !.step = 1, !.issued = 1]]
                      /\ UNCHANGED <<ledger, sandboxes>>
                 ELSE IF impl = "sdk"
                 THEN \* getSandboxOutput('preview_url') returns before any log call
                      /\ sess' = [sess EXCEPT ![s] = Finish(sm, NoError)]
                      /\ UNCHANGED <<ledger, provider, sandboxes>>
                 ELSE \* the in-memory manager does its work at once
                      /\ UNCHANGED provider
                      /\ CASE req.tool = "create_sandbox_for_project" ->
                                \E id \in {i \in SandboxIds : ~sandboxes[i].exists} :
                                   /\ sandboxes' = [sandboxes EXCEPT ![id] =
                                        [exists |-> TRUE, files |-> PathsOf(req)]]
                                   /\ ManagerFinish(s, [sm EXCEPT !.sandbox = id],
                                                    "success", NoError)
                           [] req.tool = "write_files_to_sandbox" ->
                                /\ sandboxes' = [sandboxes EXCEPT ![req.sandbox_id].files =
                                                   @ \cup PathsOf(req)]
                                /\ ManagerFinish(s, sm, "success", NoError)
                           [] OTHER ->
                                /\ UNCHANGED sandboxes
                                /\ ManagerFinish(s, sm, "success", NoError)

\* a provider answers the pending call of a handler, which resumes
Respond(s, answer) ==
    LET se   == sess[s]
        req  == se.req
        plan == Plan(req, impl)
        call == plan[se.step]
        e    == AnswerError(call, answer)
    IN  /\ se.pc = "await"
        /\ answer \in Answers(call)
        /\ UNCHANGED <<now, ticks, limits, impl, reqCount, octokitCache, directVars>>
        /\ IF answer # "ok"
           THEN /\ ManagerFinish(s, se, "failure", ManagerRethrow(req, impl, e.error, e.mcp))
                /\ UNCHANGED <<provider, sandboxes, pushed>>
           ELSE
           \E id \in (IF call.op = "sandboxes.create" THEN SandboxIds ELSE {TargetSandbox(se)}) :
           LET sn == [se EXCEPT !.sandbox = IF call.op = "sandboxes.create" THEN id ELSE @] IN
           /\ call.op = "sandboxes.create" => ~sandboxes[id].exists
           /\ sandboxes' =
                CASE call.op = "sandboxes.create" ->
                        [sandboxes EXCEPT ![id].exists = TRUE]
                  [] call.op = "filesystem.writeFile" ->
                        [sandboxes EXCEPT ![id].files = @ \cup {call.path}]
                  [] OTHER -> sandboxes
           /\ pushed' = IF call.op = "git.updateRef"
                        THEN pushed \cup {[repo_id |-> req.repo_id, branch |-> req.branch,
                                           files |-> PathsOf(req)]}
                        ELSE pushed
           /\ IF se.step < Len(plan)
              THEN /\ provider' = provider \cup {plan[se.step + 1]}
                   /\ sess' = [sess EXCEPT ![s] =
                                 [sn EXCEPT !.step = se.step + 1, !.issued = se.issued + 1]]
                   /\ UNCHANGED ledger
              ELSE /\ ManagerFinish(s, sn, "success", NoError)
                   /\ UNCHANGED provider

\* the session a new call runs in: the first one with no handler suspended
FreeSession == IF sess["s1"].pc # "await" THEN "s1" ELSE "s2"

\* Date.now() reaches a window boundary of a limiter between two handler runs,
\* while calls are still to come
GatewayTick ==
    /\ \A s \in Sessions : sess[s].pc # "await"
    /\ reqCount < MaxRequests
    /\ Tick({"resetAt"})
    /\ UNCHANGED gatewayVars

Init ==
    /\ now = 0
    /\ ticks = 0
    /\ calls = 0
    /\ subject = DefaultUser
    /\ limits = [rl \in Limiters |-> [k \in AllKeys |-> NoEntry]]
    /\ win = [k \in AllKeys |-> NoWindow]
    /\ day = [u \in AllUsers |-> NoDay]
    /\ InitGateway

Next ==
    \/ \E s \in Sessions, req \in Requests :
          reqCount < MaxRequests /\ s = FreeSession /\ Begin(s, req) /\ UNCHANGED auditVars
    \/ \E s \in Sessions, answer \in {"ok", "fail", "no-push", "not-a-file"} :
          Respond(s, answer) /\ UNCHANGED auditVars
    \/ GatewayTick

Spec == Init /\ [][Next]_vars

\* the calls a burst is made of: a burst repeats one of them
BurstRequests ==
    {[NoRequest EXCEPT !.tool = "write_files_to_sandbox", !.sandbox_id = "sb1",
                       !.files = <<P_ok>>],
     [NoRequest EXCEPT !.tool = "create_sandbox_for_project"]}

\* Date.now() reaches a window boundary of a limiter: between handler runs,
\* or the first time also while the handler of the first session is suspended
SessionsTick ==
    /\ sess["s2"].pc # "await"
    /\ sess["s1"].pc = "await" => ticks = 0
    /\ Tick({"resetAt"})
    /\ UNCHANGED gatewayVars

\* the sandbox service serves every call of a burst, and refuses a creation
\* once its sandboxes are used up
BurstAnswers(se) ==
    IF /\ se.req.tool = "create_sandbox_for_project"
       /\ \A id \in SandboxIds : sandboxes[id].exists
    THEN {"fail"} ELSE {"ok"}

NextSessions ==
    \/ \E s \in Sessions, req \in BurstRequests :
          /\ reqCount < MaxBurst
          /\ s = FreeSession
          /\ reqCount > 0 => req = sess["s1"].req
          /\ Begin(s, req)
          /\ UNCHANGED auditVars
    \/ \E s \in Sessions : \E answer \in BurstAnswers(sess[s]) :
          Respond(s, answer) /\ UNCHANGED auditVars
    \/ SessionsTick

SpecSessions == Init /\ [][NextSessions]_vars

-----------------------------------------------------------------------------
(* The GitHub tools called for several repositories: two of the allowlist (one
   whose id has no slash), one outside it, and a name every object inherits *)

MaxRepoCalls == 2

R_proto == <<"c", "o", "n", "s", "t", "r", "u", "c", "t", "o", "r">>

RepoRequests ==
    {[NoRequest EXCEPT !.tool = "commit_and_push_to_github", !.repo_id = r, !.branch = B_main,
                       !.files = <<P_ok>>] : r \in {R_ok, R_env, R_no, R_proto}}
    \cup
    {[NoRequest EXCEPT !.tool = "read_github_file", !.repo_id = r, !.file_path = P_ok,
                       !.branch = B_main] : r \in {R_ok, R_env, R_no, R_proto}}

NextRepos ==
    \/ \E s \in Sessions, req \in RepoRequests :
          reqCount < MaxRepoCalls /\ s = FreeSession /\ Begin(s, req) /\ UNCHANGED auditVars
    \/ \E s \in Sessions, answer \in {"ok", "fail", "no-push", "not-a-file"} :
          Respond(s, answer) /\ UNCHANGED auditVars

SpecRepos == Init /\ [][NextRepos]_vars

-----------------------------------------------------------------------------
(* writeFiles behind its handler: a sandbox is created empty, then files are
   written to it or to an unknown sandbox, one valid file, two valid files, or
   a valid file followed by a refused one; the sandbox service may refuse any
   call *)

MaxWrites == 3

WriteRequests ==
    {[NoRequest EXCEPT !.tool = "create_sandbox_for_project"]}
    \cup
    {[NoRequest EXCEPT !.tool = "write_files_to_sandbox", !.sandbox_id = id, !.files = fs]
        : id \in SandboxIds, fs \in {<<P_ok>>, <<P_ok, P_src>>, <<P_ok, P_env>>}}

NextWrites ==
    \/ \E s \in Sessions, req \in WriteRequests :
          reqCount < MaxWrites /\ s = FreeSession /\ Begin(s, req) /\ UNCHANGED auditVars
    \/ \E s \in Sessions, answer \in {"ok", "fail"} :
          Respond(s, answer) /\ UNCHANGED auditVars

SpecWrites == Init /\ [][NextWrites]_vars

-----------------------------------------------------------------------------
(* AuditLogger driven directly: log, queryLogs, verifyIntegrity *)

MaxLogs == 2

\* parameter objects of log calls: plain, sensitive keys in several spellings,
\* sensitive keys two and three levels down, an object under a sensitive key,
\* an array of objects (typeof [] is 'object': its indices are its keys)
SampleParameters ==
    LET name == <<"n", "a", "m", "e">>
        Token == <<"T", "o", "k", "e", "n">>
        user == <<"u", "s", "e", "r">>
        password == <<"p", "a", "s", "s", "w", "o", "r", "d">>
        id == <<"i", "d">>
        items == <<"i", "t", "e", "m", "s">>
        apiKey == <<"a", "p", "i", "K", "e", "y">>
        cfg == <<"c", "f", "g">>
        API_KEY == <<"A", "P", "I", "_", "K", "E", "Y">>
        xAuth == <<"x", "A", "u", "t", "h">>
        my_secret == <<"m", "y", "_", "s", "e", "c", "r", "e", "t">>
    IN  {Obj(name :> Str("n")),
         Obj((Token :> Str("t0")) @@ (name :> Str("n"))
             @@ (user :> Obj((password :> Str("pw")) @@ (id :> Str("7"))))
             @@ (items :> Arr(<<Obj(Token :> Str("t1"))>>))),
         Obj((apiKey :> Str("k")) @@ (cfg :> Obj(user :> Obj(API_KEY :> Str("k2"))))
             @@ (xAuth :> Obj(id :> Str("7"))) @@ (my_secret :> JsonNull))}

\* the arguments of one log call
LogArgs(userId, toolName, parameters, result, executionTimeMs, error, sandboxId) ==
    [userId |-> userId, toolName |-> toolName, parameters |-> parameters, result |-> result,
     executionTimeMs |-> executionTimeMs, error |-> error, sandboxId |-> sandboxId]

\* the log calls made: every parameter object, each outcome, the error text and
\* the sandbox id absent, empty and present, and parameters that are no object
LogCalls ==
    LET base == LogArgs("u1", "write_files", Obj(<<"n", "a", "m", "e">> :> Str("n")),
                        "success", 5, UndefinedText, "sb1")
    IN  {[base EXCEPT !.parameters = p] : p \in SampleParameters}
        \cup {[base EXCEPT !.result = "failure", !.error = "", !.sandboxId = UndefinedText],
              [base EXCEPT !.sandboxId = ""],
              [base EXCEPT !.userId = "u2", !.toolName = "create_sandbox",
                           !.result = "rate_limited", !.error = "boom",
                           !.executionTimeMs = 0, !.sandboxId = UndefinedText],
              [base EXCEPT !.parameters = JsonNull]}

\* the filters of the queryLogs calls made
QueryFilters ==
    {NoFilters,
     [NoFilters EXCEPT !.userId = "u1"],
     [NoFilters EXCEPT !.toolName = "write_files", !.result = "failure"],
     [NoFilters EXCEPT !.startDate = 1],
     [NoFilters EXCEPT !.endDate = 0],
     [NoFilters EXCEPT !.limit = 1],
     [NoFilters EXCEPT !.limit = 0]}

\* a statement that overwrites the latest row
InsertOverLatest(db, row) ==
    IF db = <<>> THEN <<row>> ELSE [db EXCEPT ![Len(db)] = row]

\* stmt.run(...): INSERT INTO audit_logs
Insert(db, row) == Append(db, row)

\* a catch block that reports nothing
EscalateNothing(reports) == reports

\* the catch block of log: logger.error and console.error, nothing rethrown
Escalate(reports) == reports + 1

\* auditLogger.log(...), which starts a new observation; persisted is false when the statement fails (database
\* closed, disk full); parameters that are no object make sanitizeParameters
\* throw before anything is stored
Log(args, persisted) ==
    /\ calls < MaxLogs
    /\ persisted => args.parameters.type = "object"
    /\ calls' = calls + 1
    /\ IF persisted
       THEN /\ ledger' = Insert(ledger,
                                LogRow(args.userId, args.toolName, args.parameters, args.result,
                                       args.executionTimeMs, args.error, args.sandboxId, now))
            /\ alerts' = alerts
       ELSE /\ ledger' = ledger
            /\ alerts' = Escalate(alerts)
    /\ lastLog' = [called |-> TRUE, returned |-> TRUE,
                    built |-> args.parameters.type = "object", stored |-> persisted]
    /\ lastQuery' = NoQuery
    /\ lastVerify' = NoVerify
    /\ UNCHANGED <<now, ticks, limits, win, subject, day, impl, sess, reqCount, provider,
                   sandboxes, pushed, octokitCache, probe>>

\* auditLogger.queryLogs(filters), once after the latest log call
QueryLogs(filters) ==
    /\ ~lastQuery.asked
    /\ \E answer \in queryLogs(ledger, filters) :
          lastQuery' = [filters |-> filters, ids |-> answer.ids, rows |-> answer.rows,
                        asked |-> TRUE]
    /\ lastVerify' = NoVerify
    /\ UNCHANGED <<now, ticks, calls, limits, win, subject, day, impl, sess, reqCount, ledger,
                   provider, sandboxes, pushed, octokitCache, alerts, lastLog, probe>>

\* the selections of the positions 1..n in any order: every subset, every
\* reordering
Selections(n) ==
    UNION {{q \in [1..m -> 1..n] : \A i, j \in 1..m : i # j => q[i] # q[j]} : m \in 0..n}

\* auditLogger.verifyIntegrity(entries), once on a selection of the records
\* the latest query returned
VerifyIntegrity(selection) ==
    LET entries == [i \in DOMAIN selection |-> lastQuery.rows[selection[i]]]
    IN  /\ lastQuery.asked
        /\ ~lastVerify.asked
        /\ lastVerify' = [entries |-> entries, result |-> verifyIntegrity(entries),
                          asked |-> TRUE]
        /\ UNCHANGED <<now, ticks, calls, limits, win, subject, day, impl, sess, reqCount,
                       ledger, provider, sandboxes, pushed, octokitCache, alerts, lastLog,
                       lastQuery, probe>>

\* new Date() moves to the next millisecond between two log calls, once the
\* latest row carries the current one
LedgerTick ==
    /\ ticks < MaxTicks
    /\ 0 < calls /\ calls < MaxLogs
    /\ ledger # <<>> /\ now = ledger[Len(ledger)].timestamp
    /\ now' = now + 1
    /\ ticks' = ticks + 1
    /\ UNCHANGED <<calls, limits, win, subject, day>>
    /\ UNCHANGED gatewayVars

InitLedger == Init /\ impl = "sdk"

NextLedger ==
    \/ \E args \in LogCalls, persisted \in BOOLEAN : Log(args, persisted)
    \/ \E filters \in QueryFilters : QueryLogs(filters)
    \/ \E selection \in Selections(Len(lastQuery.rows)) : VerifyIntegrity(selection)
    \/ LedgerTick

SpecLedger == InitLedger /\ [][NextLedger]_vars

-----------------------------------------------------------------------------
(* Claims about the tool handlers *)

C6_ExactlyOneAuditRecord ==
    \A s \in Sessions : sess[s].pc = "done" => sess[s].audits = 1

\* C7: when a handler has completed its manager operation, successfully or
\* not, recordExecutionTime has been invoked for the identity on the limiter
\* of the handler's module (the identity has an execution_time entry there).
C7_ExecutionTimeRecorded ==
    \A s \in Sessions :
        (sess[s].pc = "done" /\ sess[s].managed) =>
            limits[LimiterOf(sess[s].req.tool)][Key(DefaultUser, "execution_time")] # NoEntry

\* C8: every provider call issued carries only file paths, branch names and
\* repository identifiers that pass validateFilePath, validateBranchName and
\* validateRepoId.
C8_ProviderCallsCarryValidNames ==
    \A c \in provider :
        /\ c.path # <<>> => validateFilePath(c.path)
        /\ c.branch # <<>> => validateBranchName(c.branch)
        /\ c.repo_id # <<>> => validateRepoId(c.repo_id, TokenMap)

\* C9: a request for which a schema, path, branch or repository validation
\* failed ends with an error that is not retryable, and no provider call was
\* issued for it.
C9_ValidationFailureNotRetryable ==
    \A s \in Sessions :
        (sess[s].pc = "done" /\ sess[s].invalid) =>
            /\ sess[s].error # NoError
            /\ ~sess[s].error.retryable
            /\ sess[s].issued = 0

\* the locations SECURITY.md lists as never accessible
DeniedLocations ==
    {<<".", "e", "n", "v">>, <<".", "g", "i", "t">>,
     <<"n", "o", "d", "e", "_", "m", "o", "d", "u", "l", "e", "s">>,
     <<".", "s", "s", "h">>, <<".", "a", "w", "s">>}

\* the segments of a path that name something: '.' and empty segments name nothing
Segments(path) == SelectSeq(Split(path, "/"), LAMBDA seg : seg # <<>> /\ seg # <<".">>)

\* whether a path denotes a location under one of the denied ones
DeniesAccess(path) ==
    Segments(path) # <<>> /\ Head(Segments(path)) \in DeniedLocations

\* C10: no file of a sandbox, no file pushed and no file read from a
\* repository has a path that denotes a location under .env, .git,
\* node_modules, .ssh or .aws.
C10_NoAccessUnderDeniedLocations ==
    /\ \A id \in SandboxIds : \A f \in sandboxes[id].files : ~DeniesAccess(f)
    /\ \A p \in pushed : \A f \in p.files : ~DeniesAccess(f)
    /\ \A c \in provider : c.path # <<>> => ~DeniesAccess(c.path)

-----------------------------------------------------------------------------
(* Claims about the audit ledger *)

\* the key's name contains token, secret, api_key, apikey, password or auth,
\* whatever its case
NamesSensitive(key) ==
    LET words == <<<<"t", "o", "k", "e", "n">>, <<"s", "e", "c", "r", "e", "t">>, <<"a", "p", "i", "_", "k", "e", "y">>, <<"a", "p", "i", "k", "e", "y">>, <<"p", "a", "s", "s", "w", "o", "r", "d">>, <<"a", "u", "t", "h">>>>
    IN  \E i \in 1..Len(words) : Includes(ToLowerCase(key), words[i])

\* some sensitive key, at some depth of the value, holds something else than the marker
RECURSIVE HoldsRawSensitive(_)
HoldsRawSensitive(value) ==
    \E key \in DOMAIN value.val :
        IF NamesSensitive(key) THEN value.val[key] # REDACTED
        ELSE HoldsRawSensitive(value.val[key])

\* C11: in every record persisted by AuditLogger.log, the value of every
\* parameter key whose name contains token, secret, api_key, apikey, password
\* or auth in any case is the marker [REDACTED], at every nesting depth
C11_SensitiveValuesRedacted ==
    \A id \in DOMAIN ledger : ~HoldsRawSensitive(ledger[id].parameters)

\* a stored record whose parameters had a capitalised sensitive key at the top
\* and sensitive keys two and three levels down, all replaced
C11_Witness ==
    LET Token == <<"T", "o", "k", "e", "n">>
        user == <<"u", "s", "e", "r">>
        password == <<"p", "a", "s", "s", "w", "o", "r", "d">>
        id == <<"i", "d">>
        cfg == <<"c", "f", "g">>
        API_KEY == <<"A", "P", "I", "_", "K", "E", "Y">>
        xAuth == <<"x", "A", "u", "t", "h">>
    IN  \E row \in DOMAIN ledger :
          LET stored == ledger[row].parameters.val
          IN  \/ /\ Token \in DOMAIN stored /\ stored[Token] = REDACTED
                 /\ stored[user].val[password] = REDACTED
                 /\ stored[user].val[id] = Str("7")
                 /\ stored[<<"i", "t", "e", "m", "s">>].val[<<"0">>].val[Token] = REDACTED
              \/ /\ cfg \in DOMAIN stored
                 /\ stored[cfg].val[user].val[API_KEY] = REDACTED
                 /\ stored[xAuth] = REDACTED

\* C12: the ledger is append-only: whatever log, queryLogs or verifyIntegrity
\* call is made, every record appended earlier is still there, at its place,
\* with all its fields and its digest unchanged
C12_AppendOnly ==
    [][/\ Len(ledger') >= Len(ledger)
       /\ \A id \in DOMAIN ledger : ledger'[id] = ledger[id]]_vars

\* a second record was appended after the first, and the records were queried
\* and verified
C12_Witness ==
    /\ Len(ledger) = 2
    /\ lastQuery.asked /\ Len(lastQuery.rows) = 2
    /\ lastVerify.asked

\* C13: AuditLogger.log never raises to its caller: a call that fails to build
\* or to persist its record returns normally, stores nothing, not even a part
\* of a record, and reports the failure outside the ledger; a call that
\* succeeds stores exactly its one record and reports nothing
C13_LogNeverRaises ==
    [][calls' = calls + 1 =>
         /\ lastLog'.called /\ lastLog'.returned
         /\ ~lastLog'.built => ~lastLog'.stored
         /\ IF lastLog'.stored
            THEN /\ Len(ledger') = Len(ledger) + 1
                 /\ DOMAIN ledger'[Len(ledger')] =
                       {"timestamp", "user_id", "tool_name", "parameters", "result", "error",
                        "sandbox_id", "execution_time_ms", "hash"}
                 /\ \A id \in DOMAIN ledger : ledger'[id] = ledger[id]
                 /\ alerts' = alerts
            ELSE /\ ledger' = ledger
                 /\ alerts' = alerts + 1]_vars

\* after a record was stored, a log call whose parameters are no object failed
\* while building its record, and returned
C13_Witness ==
    /\ Len(ledger) = 1
    /\ lastLog.called /\ lastLog.returned /\ ~lastLog.built /\ ~lastLog.stored
    /\ alerts = 1

\* C14: round trip through the store: whatever log calls were made, with the
\* error text and the sandbox id absent or present, verifyIntegrity applied to
\* the records queryLogs returned, unaltered and as returned, is true
C14_RoundTripVerifies ==
    (lastVerify.asked /\ lastVerify.entries = lastQuery.rows) => lastVerify.result

\* the records that differ from the entry in one digest-covered field and
\* keep its digest
Alterations(entry) ==
    ({[entry EXCEPT !.timestamp = t] : t \in 0..(MaxTicks + 1)}
     \cup {[entry EXCEPT !.user_id = u] : u \in AllUsers}
     \cup {[entry EXCEPT !.tool_name = n] : n \in {"write_files", "create_sandbox"}}
     \cup {[entry EXCEPT !.parameters = sanitizeParameters(p)] : p \in SampleParameters}
     \cup {[entry EXCEPT !.result = r] : r \in {"success", "failure", "rate_limited"}}
     \cup {[entry EXCEPT !.error = e] : e \in {UndefinedText, "", "boom", "bang"}}
     \cup {[entry EXCEPT !.sandbox_id = sb] : sb \in {UndefinedText, "", "sb1", "sb2"}}
     \cup {[entry EXCEPT !.execution_time_ms = ms] : ms \in {0, 5, 6}})
    \ {entry}

\* C15: changing any single digest-covered field of a record while keeping its
\* digest makes verifyIntegrity false for the record set that holds the altered
\* record in its place
C15_AlterationDetected ==
    \A i \in DOMAIN lastQuery.rows : \A altered \in Alterations(lastQuery.rows[i]) :
        ~verifyIntegrity([lastQuery.rows EXCEPT ![i] = altered])

\* C16: the digest is per record and not chained: verifyIntegrity is true for
\* every subset and every reordering of the unaltered records a query returned
C16_AnySelectionVerifies ==
    lastVerify.asked => lastVerify.result

\* C17: queryLogs returns the matching records newest first, also when two of
\* them carry the same millisecond: of any two returned records the one
\* appended later comes earlier; and the call changes nothing in the ledger
C17_NewestFirstAndReadOnly ==
    [][(lastQuery'.asked /\ ~lastQuery.asked) =>
         /\ \A i, j \in DOMAIN lastQuery'.ids : i < j => lastQuery'.ids[i] > lastQuery'.ids[j]
         /\ ledger' = ledger]_vars

-----------------------------------------------------------------------------
(* middleware/error-handler.ts sanitizeErrorMessage.  A message is a sequence
   of one-character strings; each replace scans it from left to right and,
   after a match, goes on behind the match. *)

\* \s, \w and [a-zA-Z0-9_-]
Whitespace == {" ", "\t", "\n", "\r"}
WordChars == Lower \cup Upper \cup Digits \cup {"_"}
TokenChars == WordChars \cup {"-"}

\* \b at the position before s[i]
Boundary(s, i) ==
    (i > 1 /\ s[i - 1] \in WordChars) # (i <= Len(s) /\ s[i] \in WordChars)

\* the last index of the longest run of characters from s[i] on that are in
\* the class, and of those that are not: i - 1 when the run is empty
SpanIn(s, i, class) ==
    CHOOSE e \in (i - 1)..Len(s) :
        /\ \A m \in i..e : s[m] \in class
        /\ e = Len(s) \/ s[e + 1] \notin class

SpanNotIn(s, i, class) ==
    CHOOSE e \in (i - 1)..Len(s) :
        /\ \A m \in i..e : s[m] \notin class
        /\ e = Len(s) \/ s[e + 1] \in class

\* (token|secret|api[_-]?key|password) with the flag i, matched at s[i]: the
\* length of the match, 0 for none
SensitiveWordAt(s, i) ==
    LET words == {<<"t", "o", "k", "e", "n">>, <<"s", "e", "c", "r", "e", "t">>, <<"a", "p", "i", "_", "k", "e", "y">>, <<"a", "p", "i", "-", "k", "e", "y">>, <<"a", "p", "i", "k", "e", "y">>, <<"p", "a", "s", "s", "w", "o", "r", "d">>}
        found == {w \in words : /\ i + Len(w) - 1 <= Len(s)
                                /\ ToLowerCase(SubSeq(s, i, i + Len(w) - 1)) = w}
    IN  IF found = {} THEN 0 ELSE Len(CHOOSE w \in found : TRUE)

\* the least and the greatest of a set of indices that is not empty
First(indices) == CHOOSE x \in indices : \A y \in indices : x <= y
Last(indices) == CHOOSE x \in indices : \A y \in indices : y <= x

\* .replace(/(token|secret|api[_-]?key|password)[\s:=]+[\S]+/gi, '$1 [REDACTED]')
\* from s[i] on: the separators are matched greedily and given back one by one
\* until a character that is no whitespace follows them
RECURSIVE ReplaceValues(_, _)
ReplaceValues(s, i) ==
    LET Word(p) == SensitiveWordAt(s, p)
        Values(p) ==
          {v \in (p + Word(p) + 1)..
                    (SpanIn(s, p + Word(p), Whitespace \cup {":", "="}) + 1) :
              v <= Len(s) /\ s[v] \notin Whitespace}
        matches == {p \in i..Len(s) : Word(p) > 0 /\ Values(p) # {}}
        p == First(matches)
    IN  IF matches = {} THEN SubSeq(s, i, Len(s))
        ELSE SubSeq(s, i, p + Word(p) - 1) \o <<" ", "[", "R", "E", "D", "A", "C", "T", "E", "D", "]">>
               \o ReplaceValues(s, SpanNotIn(s, Last(Values(p)), Whitespace) + 1)

\* .replace(/\b(token|secret|api[_-]?key|password)\b/gi, '[REDACTED]') from s[i] on
RECURSIVE ReplaceWords(_, _)
ReplaceWords(s, i) ==
    LET Word(p) == SensitiveWordAt(s, p)
        matches == {p \in i..Len(s) :
                      Word(p) > 0 /\ Boundary(s, p) /\ Boundary(s, p + Word(p))}
        p == First(matches)
    IN  IF matches = {} THEN SubSeq(s, i, Len(s))
        ELSE SubSeq(s, i, p - 1) \o <<"[", "R", "E", "D", "A", "C", "T", "E", "D", "]">> \o ReplaceWords(s, p + Word(p))

\* .replace(/<prefix>\S+/g, replacement) from s[i] on, for the prefixes /home/,
\* /Users/ and C:\Users\
RECURSIVE ReplaceAfter(_, _, _, _)
ReplaceAfter(s, i, prefix, replacement) ==
    LET matches == {p \in i..(Len(s) - Len(prefix)) :
                      /\ SubSeq(s, p, p + Len(prefix) - 1) = prefix
                      /\ s[p + Len(prefix)] \notin Whitespace}
        p == First(matches)
    IN  IF matches = {} THEN SubSeq(s, i, Len(s))
        ELSE SubSeq(s, i, p - 1) \o replacement
               \o ReplaceAfter(s, SpanNotIn(s, p + Len(prefix), Whitespace) + 1,
                               prefix, replacement)

\* .replace(/\b[a-zA-Z0-9_-]{40,}\b/g, '[REDACTED]') from s[i] on: the longest
\* run of at least 40 that ends at a \b
RECURSIVE ReplaceLongTokens(_, _)
ReplaceLongTokens(s, i) ==
    LET Ends(p) == {e \in (p + 39)..SpanIn(s, p, TokenChars) : Boundary(s, e + 1)}
        matches == {p \in i..Len(s) : Boundary(s, p) /\ Ends(p) # {}}
        p == First(matches)
    IN  IF matches = {} THEN SubSeq(s, i, Len(s))
        ELSE SubSeq(s, i, p - 1) \o <<"[", "R", "E", "D", "A", "C", "T", "E", "D", "]">> \o ReplaceLongTokens(s, Last(Ends(p)) + 1)

\* the truncation to 200 characters
Truncate(message) ==
    IF Len(message) > 200 THEN SubSeq(message, 1, 197) \o <<".", ".", ".">> ELSE message

\* sanitizeErrorMessage(message)
sanitizeErrorMessage(message) ==
    IF message = <<>> THEN <<"A", "n", " ", "e", "r", "r", "o", "r", " ", "o", "c", "c", "u", "r", "r", "e", "d">>
    ELSE LET values == ReplaceValues(Truncate(message), 1)
             words == ReplaceWords(values, 1)
             home == ReplaceAfter(words, 1, <<"/", "h", "o", "m", "e", "/">>, <<"/", "[", "U", "S", "E", "R", "]", "/">>)
             users == ReplaceAfter(home, 1, <<"/", "U", "s", "e", "r", "s", "/">>, <<"/", "[", "U", "S", "E", "R", "]", "/">>)
             windows == ReplaceAfter(users, 1, <<"C", ":", "\\", "U", "s", "e", "r", "s", "\\">>, <<"C", ":", "\\", "[", "U", "S", "E", "R", "]", "\\">>)
         IN  ReplaceLongTokens(windows, 1)

-----------------------------------------------------------------------------
(* index.ts CallTool handler (stdio), http-server.ts (HTTP): what the caller
   receives for a tool call whose handler threw *)

\* middleware/error-handler.ts ERROR_CODES
ERROR_CODES ==
    {"INVALID_REPO", "SANDBOX_NOT_FOUND", "GITHUB_AUTH_FAILED", "RATE_LIMIT_EXCEEDED",
     "INVALID_BRANCH", "PATH_TRAVERSAL", "TOKEN_EXPIRED", "SANDBOX_TIMEOUT",
     "FILE_SIZE_EXCEEDED", "QUOTA_EXCEEDED", "PERMISSION_DENIED", "INTERNAL_ERROR",
     "VALIDATION_ERROR"}

\* the catch block of the CallTool handler: the payload it serialises for an
\* MCPError e; JSON.stringify leaves out a code that is undefined
CallToolResponse(e) ==
    IF e.code = "undefined"
    THEN [isError |-> TRUE, payload |-> [error |-> "message"]]
    ELSE [isError |-> TRUE, payload |-> [error |-> "message", code |-> e.code]]

\* the catch block of the HTTP server: a JSON-RPC error whatever was thrown
HttpErrorResponse(e) ==
    [status |-> 500,
     payload |-> [error |-> [code |-> -32603, message |-> "Internal error",
                             data |-> "message"]]]

\* 'An internal error occurred. Please try again later.'
InternalErrorMessage ==
    <<"A", "n", " ", "i", "n", "t", "e", "r", "n", "a", "l", " ", "e", "r", "r", "o", "r", " ", "o", "c", "c", "u", "r", "r", "e", "d", ".", " ", "P", "l", "e", "a", "s", "e", " ", "t", "r", "y", " ", "a", "g", "a", "i", "n", " ", "l", "a", "t", "e", "r", ".">>

\* the catch block of the CallTool handler for a thrown Error that is no
\* MCPError, with its message
CallToolResponseForError(message) ==
    [isError |-> TRUE, payload |-> [error |-> InternalErrorMessage, code |-> "INTERNAL_ERROR"]]

\* the catch block of the HTTP server for a thrown Error that is no MCPError,
\* with its message
HttpErrorResponseForError(message) ==
    [status |-> 500,
     payload |-> [error |-> [code |-> -32603, message |-> "Internal error",
                             data |-> sanitizeErrorMessage(message)]]]

-----------------------------------------------------------------------------
(* Claims about the errors the caller sees *)

\* C18: every rejection the limiter raises, for the per-minute call limit, the
\* per-hour creation quota and the daily execution-time quota, is retryable and
\* reports a number of seconds until the window resets
C18_RejectionsRetryableWithHint ==
    /\ \A k \in AllKeys :
          win[k].error # NoError =>
              win[k].error.retryable /\ win[k].error.retryAfter # NoHint
    /\ \A u \in AllUsers :
          day[u].error # NoError =>
              day[u].error.retryable /\ day[u].error.retryAfter # NoHint

\* C19: through the tool handlers, for an existing sandbox or an allowlisted
\* repository, a request with a branch name containing '..' is rejected with
\* INVALID_BRANCH, and one with a file path that contains '..', is absolute or
\* is forbidden (and a valid branch name) is rejected with PATH_TRAVERSAL
C19_RuleNamedErrorKind ==
    \A s \in Sessions :
        LET req == sess[s].req
            targetOk ==
              /\ req.wellFormed
              /\ req.tool \in {"write_files_to_sandbox", "commit_and_push_to_github",
                               "read_github_file"}
              /\ req.tool = "write_files_to_sandbox" => sandboxes[req.sandbox_id].exists
              /\ req.tool \in {"commit_and_push_to_github", "read_github_file"}
                    => req.repo_id \in DOMAIN TokenMap /\ parseRepoId(req.repo_id) = NoError
            badBranch ==
              req.tool = "commit_and_push_to_github" /\ Includes(req.branch, <<".", ".">>)
            badPath == \E path \in PathsOf(req) : ~validateFilePath(path)
        IN  (sess[s].pc = "done" /\ targetOk) =>
               /\ badBranch => sess[s].error.code = "INVALID_BRANCH"
               /\ (badPath /\ ~badBranch) => sess[s].error.code = "PATH_TRAVERSAL"

\* C20: every error surfaced to the caller at the gateway boundary, over stdio
\* or over HTTP, carries a kind out of the thirteen of ERROR_CODES together
\* with its status code and its retryable flag
C20_SurfacedErrorsCarryKind ==
    \A s \in Sessions :
        (sess[s].pc = "done" /\ sess[s].error # NoError) =>
            \A payload \in {CallToolResponse(sess[s].error).payload,
                            HttpErrorResponse(sess[s].error).payload} :
                /\ "code" \in DOMAIN payload
                /\ payload.code \in ERROR_CODES
                /\ "statusCode" \in DOMAIN payload
                /\ "retryable" \in DOMAIN payload

-----------------------------------------------------------------------------
(* Direct calls of the sanitizers, the validators and the boundary *)

\* everything but the observation of the direct call
restVars == <<now, ticks, calls, limits, win, subject, day, impl, sess, reqCount, ledger,
              provider, sandboxes, pushed, octokitCache, alerts, lastLog, lastQuery,
              lastVerify>>

\* parameter objects: under each of four keys, one sensitive, a string, null,
\* an array of strings, a nested map without and with a sensitive key, and an
\* array of maps
ParameterMaps ==
    LET name == <<"n", "a", "m", "e">>
        tags == <<"t", "a", "g", "s">>
        meta == <<"m", "e", "t", "a">>
        Token == <<"T", "o", "k", "e", "n">>
        id == <<"i", "d">>
        password == <<"p", "a", "s", "s", "w", "o", "r", "d">>
        values == {Str("v"), JsonNull, Arr(<<Str("a"), Str("b")>>), Obj(id :> Str("7")),
                   Obj((password :> Str("pw")) @@ (id :> Str("7"))),
                   Arr(<<Obj(password :> Str("pw"))>>)}
    IN  {Obj(fields) : fields \in [{name, tags, meta, Token} -> values]}

\* file paths: those of the tests, and '..' inside a name, a lower-case drive
\* letter, forbidden names at the start and further down, the empty path
FilePaths ==
    {<<"s", "r", "c", "/", "i", "n", "d", "e", "x", ".", "t", "s">>,
     <<".", ".", "/", "e", "t", "c", "/", "p", "a", "s", "s", "w", "d">>,
     <<"/", "e", "t", "c", "/", "p", "a", "s", "s", "w", "d">>,
     <<".", "e", "n", "v">>,
     <<"C", ":", "/", "W", "i", "n", "d", "o", "w", "s", "/", "x">>,
     <<"c", ":", "/", "x">>,
     <<"a", ".", ".", "b", ".", "t", "x", "t">>,
     <<"s", "r", "c", "/", "v", "1", ".", ".", "v", "2", ".", "d", "i", "f", "f">>,
     <<"a", "/", ".", ".", "/", "b">>,
     <<"n", "o", "d", "e", "_", "m", "o", "d", "u", "l", "e", "s", "/", "x">>,
     <<".", "g", "i", "t", "/", "c", "o", "n", "f", "i", "g">>,
     <<"s", "r", "c", "/", ".", "e", "n", "v">>,
     <<".", "e", "n", "v", "r", "c">>,
     <<>>,
     <<".", "s", "s", "h", "/", "i", "d">>,
     <<".", "a", "w", "s", "/", "c">>,
     <<".", "c", "o", "n", "f", "i", "g", "/", "x">>,
     <<".", "c", "o", "d", "e", "s", "a", "n", "d", "b", "o", "x", "/", "t">>,
     <<"/", "h", "o", "m", "e", "/", "x">>,
     <<"x">>,
     <<".", ".">>,
     <<"a", "/", "b", ":", "c">>}

\* repository ids, and allowlists: none, one and two repositories configured
RepoIds ==
    {<<"o", "/", "r">>,
     <<"o", "_", "r">>,
     <<"x", "/", "y">>,
     <<"c", "o", "n", "s", "t", "r", "u", "c", "t", "o", "r">>,
     <<"t", "o", "S", "t", "r", "i", "n", "g">>,
     <<"_", "_", "p", "r", "o", "t", "o", "_", "_">>,
     <<"v", "a", "l", "u", "e", "O", "f">>,
     <<"h", "a", "s", "O", "w", "n", "P", "r", "o", "p", "e", "r", "t", "y">>,
     <<>>}

Allowlists == {<<>>, R_ok :> "token-1", TokenMap}

\* error messages: those of the tests, sensitive words in several spellings
\* with and without a value, one sensitive word after another, home
\* directories, a long identifier, the TypeError of a request without params,
\* and messages of more than 200 characters
Messages ==
    LET Times(word, n) ==
          [i \in 1..(n * Len(word)) |-> word[((i - 1) % Len(word)) + 1]]
    IN  {<<"F", "a", "i", "l", "e", "d", " ", "w", "i", "t", "h", " ", "t", "o", "k", "e", "n", " ", "a", "b", "c", "1", "2", "3", "x", "y", "z">>,
         <<"I", "n", "v", "a", "l", "i", "d", " ", "a", "p", "i", "_", "k", "e", "y", " ", "s", "k", "-", "1", "2", "3", "4", "5", "6", "7", "8", "9", "0">>,
         <<"S", "e", "c", "r", "e", "t", " ", "p", "a", "s", "s", "w", "o", "r", "d", "1", "2", "3", " ", "i", "s", " ", "i", "n", "v", "a", "l", "i", "d">>,
         <<"E", "r", "r", "o", "r", " ", "r", "e", "a", "d", "i", "n", "g", " ", "/", "h", "o", "m", "e", "/", "u", "s", "e", "r", "/", ".", "s", "s", "h", "/", "i", "d", "_", "r", "s", "a">>,
         <<>>,
         <<"P", "A", "S", "S", "W", "O", "R", "D", "=", "h", "u", "n", "t", "e", "r", "2", " ", "r", "e", "j", "e", "c", "t", "e", "d">>,
         <<"b", "a", "d", " ", "A", "P", "I", "-", "K", "E", "Y", ":", " ", "k", "9", " ", "a", "n", "d", " ", "a", "p", "i", "K", "e", "y", " ", "=", " ", "k", "8">>,
         <<"B", "a", "d", " ", "s", "e", "c", "r", "e", "t", " ", "t", "o", "k", "e", "n", " ", "a", "b", "c", "1", "2", "3", "x", "y", "z">>,
         <<"n", "o", " ", "t", "o", "k", "e", "n">>,
         <<"o", "p", "e", "n", " ", "/", "U", "s", "e", "r", "s", "/", "b", "o", "b", "/", "x", " ", "a", "n", "d", " ", "C", ":", "\\", "U", "s", "e", "r", "s", "\\", "b", "o", "b", "\\", "y">>,
         <<"i", "d", " ", "A", "1", "b", "2", "C", "3", "d", "4", "E", "5", "f", "6", "G", "7", "h", "8", "I", "9", "j", "0", "A", "1", "b", "2", "C", "3", "d", "4", "E", "5", "f", "6", "G", "7", "h", "8", "I", "9", "j", "0", "_", "x", "-", "y", " ", "s", "e", "e", "n">>,
         <<"m", "y", "t", "o", "k", "e", "n", "=", "a", "b", "c", "9", " ", "s", "e", "n", "t">>,
         <<"t", "o", "k", "e", "n", ":", "=", " ", "x">>,
         <<"c", "o", "n", "n", "e", "c", "t", " ", "E", "C", "O", "N", "N", "R", "E", "F", "U", "S", "E", "D", " ", "1", "0", ".", "0", ".", "0", ".", "1", ":", "4", "4", "3">>,
         <<"C", "a", "n", "n", "o", "t", " ", "d", "e", "s", "t", "r", "u", "c", "t", "u", "r", "e", " ", "p", "r", "o", "p", "e", "r", "t", "y", " ", "'", "n", "a", "m", "e", "'", " ", "o", "f", " ", "'", "m", "e", "s", "s", "a", "g", "e", ".", "p", "a", "r", "a", "m", "s", "'", " ", "a", "s", " ", "i", "t", " ", "i", "s", " ", "u", "n", "d", "e", "f", "i", "n", "e", "d", ".">>,
         Times(<<"a">>, 300),
         Times(<<"w", "o", "r", "d", " ">>, 50),
         Times(<<"t", "o", "k", "e", "n", " ">>, 40),
         Times(<<"x">>, 180) \o <<" ", "p", "a", "s", "s", "w", "o", "r", "d", "=", "a", "b", "c", "d", "e", "f", "g", "h", "i", "j", "k", "l", "m", "n", "o", "p", "q", "r", "s", "t", "u", "v", "w", "x", "y", "z">>}

\* sanitizeErrorMessage(message), called directly
CallSanitizeErrorMessage(message) ==
    /\ probe = NoProbe
    /\ probe' = [fn |-> "sanitizeErrorMessage", arg |-> message,
                 out |-> sanitizeErrorMessage(message)]
    /\ UNCHANGED restVars

\* an Error that is no MCPError, thrown with this message while a tool call is
\* handled, on each transport: what the caller receives
ThrowAtBoundary(message) ==
    /\ probe = NoProbe
    /\ probe' = [fn |-> "boundary", arg |-> message,
                 stdio |-> CallToolResponseForError(message),
                 http |-> HttpErrorResponseForError(message)]
    /\ UNCHANGED restVars

\* validateFilePath(filePath), called directly
CallValidateFilePath(filePath) ==
    /\ probe = NoProbe
    /\ probe' = [fn |-> "validateFilePath", arg |-> filePath,
                 out |-> validateFilePath(filePath)]
    /\ UNCHANGED restVars

\* validateRepoId(repoId, allowedRepos) and assertValidRepoId(repoId, allowedRepos),
\* called directly
CallValidateRepoId(repoId, allowedRepos) ==
    /\ probe = NoProbe
    /\ probe' = [fn |-> "validateRepoId", arg |-> repoId, allowed |-> allowedRepos,
                 out |-> validateRepoId(repoId, allowedRepos),
                 error |-> assertValidRepoId(repoId, allowedRepos)]
    /\ UNCHANGED restVars

\* sanitizeParameters(params), called directly
CallSanitizeParameters(params) ==
    /\ probe = NoProbe
    /\ probe' = [fn |-> "sanitizeParameters", arg |-> params,
                 out |-> sanitizeParameters(params)]
    /\ UNCHANGED restVars

InitFunctions == Init /\ impl = "sdk"

NextFunctions ==
    \/ \E message \in Messages : CallSanitizeErrorMessage(message)
    \/ \E message \in Messages : ThrowAtBoundary(message)
    \/ \E filePath \in FilePaths : CallValidateFilePath(filePath)
    \/ \E repoId \in RepoIds, allowedRepos \in Allowlists :
          CallValidateRepoId(repoId, allowedRepos)
    \/ \E params \in ParameterMaps : CallSanitizeParameters(params)

SpecFunctions == InitFunctions /\ [][NextFunctions]_vars

-----------------------------------------------------------------------------
(* SpecBudgets: one RateLimiter called for two identities and both operation
   classes.  SpecCeiling: the admission of the five tool handlers, each on the
   RateLimiter object of its module, for the identity the server passes. *)

\* the state of the server besides the limiters and the observation
serverVars == <<impl, sess, reqCount, ledger, provider, sandboxes, pushed, octokitCache,
                alerts, lastLog, lastQuery, lastVerify>>

\* checkLimit calls made in SpecBudgets
MaxChecks == 6

\* rateLimiter.checkLimit(userId, tier, operation) for any identity
KeyedCheckLimit(userId, operation) ==
    LET r == CheckLimit(limits[UnderTest], userId, TierOf[userId], operation, now)
    IN  /\ calls < MaxChecks
        /\ calls' = calls + 1
        /\ limits' = [limits EXCEPT ![UnderTest] = r.limits]
        /\ probe' = [fn |-> "checkLimit", userId |-> userId, operation |-> operation,
                     error |-> r.error]
        /\ UNCHANGED <<now, ticks, subject, win, day>>
        /\ UNCHANGED serverVars

\* rateLimiter.getUsageStats(userId, tier) for any identity
ReadUsageStats(userId) ==
    /\ probe' = [fn |-> "getUsageStats", userId |-> userId,
                 out |-> GetUsageStats(limits[UnderTest], userId, TierOf[userId])]
    /\ limits' = [limits EXCEPT ![UnderTest] = LimitsAfterReading(@, userId)]
    /\ UNCHANGED <<now, ticks, calls, subject, win, day>>
    /\ UNCHANGED serverVars

NextBudgets ==
    \/ \E userId \in Users, operation \in Operations : KeyedCheckLimit(userId, operation)
    \/ \E userId \in Users : ReadUsageStats(userId)
    \/ Tick({"resetAt"}) /\ UNCHANGED gatewayVars

SpecBudgets == InitFunctions /\ [][NextBudgets]_vars

\* a tool handler up to its rate-limit checks, for a well-formed request: the
\* checkLimit calls on the RateLimiter of the handler's module
HandlerAdmit(tool) ==
    LET r == HandlerCheckLimit(limits[LimiterOf(tool)], tool, DefaultUser, now)
    IN  /\ calls < MaxCalls
        /\ calls' = calls + 1
        /\ limits' = [limits EXCEPT ![LimiterOf(tool)] = r.limits]
        /\ UNCHANGED <<now, ticks, subject, win, day, probe>>
        /\ UNCHANGED serverVars

NextCeiling ==
    \/ \E tool \in Tools : HandlerAdmit(tool)
    \/ Tick({"resetAt"}) /\ UNCHANGED gatewayVars

SpecCeiling == InitFunctions /\ [][NextCeiling]_vars

-----------------------------------------------------------------------------
(* SpecRetry: one RateLimiter, checkLimit called for one identity while the
   clock advances to the window boundaries and to the instants the rejections
   name.  SpecDaily: checkLimit and recordExecutionTime called for one
   identity while the clock advances to the boundaries of all three windows. *)

\* checkLimit calls made in SpecRetry
MaxAccesses == 12

\* per operation class, the instant the latest rejection told the caller to
\* come back at (the time of the rejection plus retryAfter seconds), as long
\* as no call of that class was accepted since
Hinted ==
    IF "hinted" \in DOMAIN probe THEN probe.hinted
    ELSE [operation \in Operations |-> Undefined]

\* rateLimiter.checkLimit(subject, tier, operation)
Access(operation) ==
    LET r == CheckLimit(limits[UnderTest], subject, TierOf[subject], operation, now)
    IN  /\ calls < MaxAccesses
        /\ calls' = calls + 1
        /\ limits' = [limits EXCEPT ![UnderTest] = r.limits]
        /\ probe' = [fn |-> "checkLimit", userId |-> subject, operation |-> operation,
                     error |-> r.error,
                     retried |-> Hinted[operation] = now,
                     hinted |-> [Hinted EXCEPT ![operation] =
                                   IF r.error = NoError THEN Undefined
                                   ELSE now + r.error.retryAfter * 1000]]
        /\ UNCHANGED <<now, ticks, subject, win, day>>
        /\ UNCHANGED serverVars

\* the caller waits as long as a rejection told it to
WaitAsHinted ==
    /\ ticks < MaxTicks
    /\ \E operation \in Operations :
          Hinted[operation] # Undefined /\ Hinted[operation] > now /\ now' = Hinted[operation]
    /\ ticks' = ticks + 1
    /\ UNCHANGED <<calls, limits, subject, win, day>>
    /\ UNCHANGED gatewayVars

NextRetry ==
    \/ \E operation \in Operations : Access(operation)
    \/ WaitAsHinted
    \/ Tick({"resetAt"}) /\ UNCHANGED gatewayVars

SpecRetry == InitLimiter /\ [][NextRetry]_vars

\* rateLimiter.recordExecutionTime(userId, tier, executionTimeMs) for any identity
KeyedRecordExecutionTime(userId, executionTimeMs) ==
    LET r == RecordExecutionTime(limits[UnderTest], userId, TierOf[userId],
                                 executionTimeMs, now)
    IN  /\ calls < MaxChecks
        /\ calls' = calls + 1
        /\ limits' = [limits EXCEPT ![UnderTest] = r.limits]
        /\ probe' = [fn |-> "recordExecutionTime", userId |-> userId,
                     operation |-> "execution_time", error |-> r.error,
                     executionTimeMs |-> executionTimeMs]
        /\ UNCHANGED <<now, ticks, subject, win, day>>
        /\ UNCHANGED serverVars

\* calls of the limiter made in SpecDaily
MaxDailyCalls == 4

NextDaily ==
    \/ \E operation \in Operations :
          calls < MaxDailyCalls /\ KeyedCheckLimit(subject, operation)
    \/ \E executionTimeMs \in {1, 3600000} :
          calls < MaxDailyCalls /\ KeyedRecordExecutionTime(subject, executionTimeMs)
    \/ Tick({"resetAt", "hourlyResetAt", "dailyResetAt"}) /\ UNCHANGED gatewayVars

SpecDaily == InitLimiter /\ [][NextDaily]_vars

-----------------------------------------------------------------------------
(* Claims about the sanitizers and the validators *)

\* C21: for any failure that is not an MCPError, the response returned to the
\* caller, over stdio and over HTTP, contains only the generic internal-error
\* kind and its fixed message, and no part of the original error detail,
\* sanitized or not
C21_OnlyGenericErrorReturned ==
    probe.fn = "boundary" =>
        /\ probe.stdio.payload = [error |-> InternalErrorMessage, code |-> "INTERNAL_ERROR"]
        /\ "data" \in DOMAIN probe.http.payload.error =>
              probe.http.payload.error.data = InternalErrorMessage

\* C22: for any message in which a sensitive word (token, secret, api key,
\* password, in any case) is followed by separators and a value, the output of
\* sanitizeErrorMessage contains [REDACTED] and does not contain that value
C22_ValueAfterSensitiveWordRemoved ==
    probe.fn = "sanitizeErrorMessage" =>
        \A i \in 1..Len(probe.arg) :
            LET n == SensitiveWordAt(probe.arg, i)
                from == SpanIn(probe.arg, i + n, Whitespace \cup {":", "="}) + 1
                to == SpanNotIn(probe.arg, from, Whitespace)
            IN  (n > 0 /\ from > i + n /\ to >= from) =>
                    /\ Includes(probe.out, <<"[", "R", "E", "D", "A", "C", "T", "E", "D", "]">>)
                    /\ ~Includes(probe.out, SubSeq(probe.arg, from, to))

\* C23: for every message longer than 200 characters, the output of
\* sanitizeErrorMessage is at most 200 characters long and ends with '...'
C23_LongMessagesTruncated ==
    (probe.fn = "sanitizeErrorMessage" /\ Len(probe.arg) > 200) =>
        /\ Len(probe.out) <= 200
        /\ SubSeq(probe.out, Len(probe.out) - 2, Len(probe.out)) = <<".", ".", ".">>

\* C24: validateRepoId(id, allowlist) is true exactly when id is one of the
\* identifiers configured in the allowlist map and false for every other
\* string, and assertValidRepoId raises INVALID_REPO exactly in the latter case
C24_ClosedWorldMembership ==
    probe.fn = "validateRepoId" =>
        /\ probe.out <=> probe.arg \in DOMAIN probe.allowed
        /\ probe.error.code = "INVALID_REPO" <=> probe.arg \notin DOMAIN probe.allowed

\* the forbidden names the path predicate anchors at the start of a path
ForbiddenPrefixes ==
    {<<".", "e", "n", "v">>,
     <<".", "g", "i", "t">>,
     <<"n", "o", "d", "e", "_", "m", "o", "d", "u", "l", "e", "s">>,
     <<".", "c", "o", "d", "e", "s", "a", "n", "d", "b", "o", "x">>,
     <<"/", "e", "t", "c">>,
     <<"/", "r", "o", "o", "t">>,
     <<"/", "p", "r", "o", "c">>,
     <<"/", "s", "y", "s">>,
     <<"/", "v", "a", "r">>,
     <<"/", "u", "s", "r">>,
     <<"/", "b", "i", "n">>,
     <<"/", "s", "b", "i", "n">>,
     <<"/", "b", "o", "o", "t">>,
     <<".", "s", "s", "h">>,
     <<".", "a", "w", "s">>,
     <<".", "c", "o", "n", "f", "i", "g">>}

\* the path starts with a letter and a colon, or with one of the forbidden names
DriveOrForbidden(path) ==
    \/ /\ Len(path) >= 2
       /\ path[1] \in Lower \cup Upper
       /\ path[2] = ":"
    \/ \E prefix \in ForbiddenPrefixes :
          Len(path) >= Len(prefix) /\ SubSeq(path, 1, Len(prefix)) = prefix

RECURSIVE NoSensitiveKeyInside(_)
NoSensitiveKeyInside(value) ==
    /\ \A key \in DOMAIN value.val :
          ~NamesSensitive(key) /\ NoSensitiveKeyInside(value.val[key])
    /\ \A i \in DOMAIN value.elems : NoSensitiveKeyInside(value.elems[i])

\* C26: sanitizeParameters leaves every key whose name contains no sensitive
\* substring in place with its value unchanged, whether that value is a scalar,
\* an array, or a nested map without sensitive keys
C26_PlainKeysUnchanged ==
    probe.fn = "sanitizeParameters" =>
        \A key \in DOMAIN probe.arg.val :
            (~NamesSensitive(key) /\ NoSensitiveKeyInside(probe.arg.val[key])) =>
                /\ key \in DOMAIN probe.out.val
                /\ probe.out.val[key] = probe.arg.val[key]

\* C27: sanitizeParameters is idempotent: sanitizing the result of a call
\* again gives that same result
C27_SanitizeParametersIdempotent ==
    probe.fn = "sanitizeParameters" => sanitizeParameters(probe.out) = probe.out

\* a call that redacted a key, rebuilt an array and rebuilt a nested map
C27_Witness ==
    /\ probe.fn = "sanitizeParameters"
    /\ \E key \in DOMAIN probe.arg.val :
          NamesSensitive(key) /\ probe.arg.val[key] # REDACTED
                              /\ probe.out.val[key] = REDACTED
    /\ \E key \in DOMAIN probe.arg.val :
          probe.arg.val[key].type = "array" /\ probe.out.val[key].type = "object"
    /\ \E key \in DOMAIN probe.arg.val :
          probe.arg.val[key].type = "object" /\ probe.out.val[key] # probe.arg.val[key]

-----------------------------------------------------------------------------
(* Claims about the budgets of the limiter *)

\* C28: a checkLimit call for one (identity, operation class) key changes the
\* counters and reset timestamps of no other key, of another identity or of
\* the same identity's other class, and is throttled only when its own key is
\* exhausted
C28_BudgetsIndependentPerKey ==
    [][(calls' = calls + 1 /\ probe'.fn = "checkLimit") =>
          LET called == probe'.userId \o ":" \o probe'.operation
              own == limits[UnderTest][called]
              ceiling == IF probe'.operation = "api_call"
                         THEN QUOTA_TIERS[TierOf[probe'.userId]].apiCallsPerMinute
                         ELSE QUOTA_TIERS[TierOf[probe'.userId]].sandboxesPerHour
          IN  /\ \A rl \in Limiters, k \in AllKeys :
                    k # called => limits'[rl][k] = limits[rl][k]
              /\ probe'.error # NoError =>
                    /\ own # NoEntry
                    /\ IF probe'.operation = "api_call" THEN own.count >= ceiling
                       ELSE own.hourlyCount >= ceiling]_vars

\* a call of the other class was accepted for an identity whose creation
\* budget is exhausted
C28_Witness ==
    /\ probe.fn = "checkLimit"
    /\ probe.userId = "u1"
    /\ probe.operation = "api_call"
    /\ probe.error = NoError
    /\ limits[UnderTest]["u1:create_sandbox"] # NoEntry
    /\ limits[UnderTest]["u1:create_sandbox"].hourlyCount >= 5
    /\ now <= limits[UnderTest]["u1:create_sandbox"].resetAt
    /\ limits[UnderTest]["u1:api_call"].count = 1

\* C29: getUsageStats changes no counter and no reset timestamp and creates
\* no limiter entry
C29_UsageStatsReadOnly ==
    [][(probe'.fn = "getUsageStats" /\ probe' # probe) => limits' = limits]_vars

\* the stats of an identity with calls counted and no creation entry were read
C29_Witness ==
    /\ probe.fn = "getUsageStats"
    /\ probe.out.apiCalls.current > 0
    /\ probe.out.sandboxes.current = 0
    /\ limits[UnderTest][probe.userId \o ":create_sandbox"] = NoEntry
    /\ limits[UnderTest][probe.userId \o ":api_call"].count = probe.out.apiCalls.current

\* C30: counting the calls of one identity across all five tools, no more
\* than apiCallsPerMinute of them are admitted within one minute window
C30_CeilingAcrossAllTools ==
    \A u \in AllUsers :
        LET live == {rl \in Limiters :
                       /\ limits[rl][u \o ":api_call"] # NoEntry
                       /\ now <= limits[rl][u \o ":api_call"].resetAt}
            Admitted(rl) == IF rl \in live THEN limits[rl][u \o ":api_call"].count ELSE 0
        IN  Admitted("sandbox-tools") + Admitted("github-tools")
              <= QUOTA_TIERS["free"].apiCallsPerMinute

-----------------------------------------------------------------------------
(* Claims about the windows of the limiter *)

\* C31: once an identity's recorded execution time in the current daily
\* window exceeds its tier's daily ceiling, no further operation of that
\* identity is admitted until the daily window resets
C31_DailyQuotaEnforcedOnAdmission ==
    (probe.fn = "checkLimit" /\ probe.error = NoError) =>
        LET e == limits[UnderTest][probe.userId \o ":execution_time"]
        IN  ~(/\ e # NoEntry
              /\ now <= e.dailyResetAt
              /\ e.dailyExecutionMs > QUOTA_TIERS[TierOf[probe.userId]].executionTimePerDay)

\* the windows an access of an operation class looks at: the counter, the
\* reset timestamp and the length of each
WindowsOf(operation) ==
    LET minute == [counter |-> "count", reset |-> "resetAt", len |-> MINUTE_MS]
        hour == [counter |-> "hourlyCount", reset |-> "hourlyResetAt", len |-> HOUR_MS]
        daily == [counter |-> "dailyExecutionMs", reset |-> "dailyResetAt", len |-> DAY_MS]
    IN  IF operation = "execution_time" THEN {daily} ELSE {minute, hour, daily}

\* what the access observed in p adds to a counter of its entry
CountedBy(p, counter) ==
    IF p.operation = "execution_time"
    THEN IF counter = "dailyExecutionMs" THEN p.executionTimeMs ELSE 0
    ELSE IF p.error # NoError THEN 0
    ELSE IF counter = "count" THEN 1
    ELSE IF counter = "hourlyCount" /\ p.operation = "create_sandbox" THEN 1
    ELSE 0

\* no reset timestamp of any entry moves backwards in this step
NoResetMovesBack ==
    \A k \in AllKeys, f \in {"resetAt", "hourlyResetAt", "dailyResetAt"} :
        (limits[UnderTest][k] # NoEntry /\ limits[UnderTest][k][f] # Undefined) =>
            /\ limits'[UnderTest][k] # NoEntry
            /\ limits'[UnderTest][k][f] >= limits[UnderTest][k][f]

\* C33: when an access finds now > resetAt for a window, that window's counter
\* is reset to zero before the access is counted and its reset timestamp
\* becomes the time of the access plus one window length, and a reset
\* timestamp never moves backwards
C33_WindowRestartsAtAccess ==
    [][/\ NoResetMovesBack
       /\ calls' = calls + 1 =>
             LET key == probe'.userId \o ":" \o probe'.operation
                 old == limits[UnderTest][key]
                 new == limits'[UnderTest][key]
             IN  \A w \in WindowsOf(probe'.operation) :
                     (old # NoEntry /\ now > old[w.reset]) =>
                         /\ new[w.reset] = now + w.len
                         /\ new[w.counter] = CountedBy(probe', w.counter)]_vars

\* the second of two api_call accesses came one millisecond after the first
\* one's resetAt and found the minute window over
C33_Witness ==
    /\ probe.fn = "checkLimit"
    /\ probe.operation = "api_call"
    /\ calls = 2
    /\ now = MINUTE_MS + 1
    /\ limits[UnderTest][probe.userId \o ":create_sandbox"] = NoEntry
    /\ limits[UnderTest][probe.userId \o ":execution_time"] = NoEntry
    /\ limits[UnderTest][probe.userId \o ":api_call"].count = 1
    /\ limits[UnderTest][probe.userId \o ":api_call"].resetAt = now + MINUTE_MS

\* C33 as stated: when an access finds now > resetAt for a window, that
\* window's counter is reset to zero and its reset timestamp advances by
\* exactly one window length (new resetAt = previous resetAt + window length),
\* and a reset timestamp never moves backwards
C33_WindowAdvancesByItsLength ==
    [][/\ NoResetMovesBack
       /\ calls' = calls + 1 =>
             LET key == probe'.userId \o ":" \o probe'.operation
                 old == limits[UnderTest][key]
                 new == limits'[UnderTest][key]
             IN  \A w \in WindowsOf(probe'.operation) :
                     (old # NoEntry /\ now > old[w.reset]) =>
                         /\ new[w.reset] = old[w.reset] + w.len
                         /\ new[w.counter] = CountedBy(probe', w.counter)]_vars

C34_WaitHintSufficient ==
    (probe.fn = "checkLimit" /\ probe.retried) => probe.error = NoError

\* C35: a checkLimit call that throws leaves every counter and reset timestamp
\* of its key unchanged, and a create_sandbox_for_project call rejected by the
\* per-hour creation quota leaves the identity's per-minute call counter
\* unchanged as well
C35_RejectedCallConsumesNoQuota ==
    [][\A s \in Sessions :
          LET rl == LimiterOf(sess'[s].req.tool)
              Same(operation) ==
                limits'[rl][DefaultUser \o ":" \o operation]
                  = limits[rl][DefaultUser \o ":" \o operation]
          IN  (/\ reqCount' = reqCount + 1
               /\ sess'[s] # sess[s]
               /\ sess'[s].pc = "done"
               /\ ~sess'[s].managed) =>
                  /\ sess'[s].error.code = "RATE_LIMIT_EXCEEDED" => Same("api_call")
                  /\ sess'[s].error.code = "QUOTA_EXCEEDED" =>
                        Same("create_sandbox") /\ Same("api_call")]_vars

\* C36: writeFiles is all-or-nothing: a writeFiles call that fails (unknown
\* sandbox, one invalid path among the files, total size over the quota, or a
\* failing individual write) leaves the sandbox's files entirely unchanged; so
\* while no writeFiles call has succeeded and none is running, the sandboxes
\* that were created, all of them empty, hold no file
C36_WriteFilesAllOrNothing ==
    (/\ \A s \in Sessions : sess[s].pc # "await"
     /\ \A i \in 1..Len(ledger) :
           ~(ledger[i].tool_name = "write_files" /\ ledger[i].result = "success"))
    => \A id \in SandboxIds : sandboxes[id].exists => sandboxes[id].files = {}

\* C37: if commitAndPush ends in failure (an error is returned and a 'failure'
\* audit record is written), the target branch reference has not been moved; so
\* while no commitAndPush call has succeeded and none is running, no branch
\* reference has been moved to a commit of a request
C37_FailedCommitMovesNoBranch ==
    (/\ \A s \in Sessions : sess[s].pc # "await"
     /\ \A i \in 1..Len(ledger) :
           ~(ledger[i].tool_name = "commit_and_push" /\ ledger[i].result = "success"))
    => pushed = {}

\* C38: every GitHub call made on behalf of repository identifier R uses the
\* client built from the credential that the allowlist maps to R, and the
\* cached client of R is never one built with another repository's credential
C38_CredentialIsolation ==
    /\ \A call \in provider :
          call.svc = "github" =>
             /\ call.repo_id \in DOMAIN TokenMap
             /\ call.repo_id \in DOMAIN octokitCache
             /\ octokitCache[call.repo_id] = TokenMap[call.repo_id]
    /\ \A r \in DOMAIN octokitCache :
          \A q \in DOMAIN TokenMap \ {r} : octokitCache[r] # TokenMap[q]

\* a GitHub call went out for one repository while the cache also holds the
\* client of another repository of the allowlist
C38_Witness ==
    /\ \E call \in provider : call.svc = "github" /\ call.repo_id = R_ok
    /\ {R_ok, R_env} \subseteq DOMAIN octokitCache

\* C39: a commit_and_push_to_github or read_github_file request that names a
\* repository present in the configured allowlist, with a valid branch and
\* valid file paths, is never rejected with INVALID_REPO
C39_AllowlistedRepoNeverInvalid ==
    \A s \in Sessions :
        LET req == sess[s].req
        IN  (/\ sess[s].pc = "done"
             /\ req.tool \in {"commit_and_push_to_github", "read_github_file"}
             /\ req.repo_id \in DOMAIN TokenMap
             /\ validateBranchName(req.branch)
             /\ \A path \in PathsOf(req) : validateFilePath(path))
            => sess[s].error.code # "INVALID_REPO"

====
